---------------------------- MODULE Spec2Model ----------------------------
(***************************************************************************)
(* State-machine model of the event-driven detection core of hms-detection *)
(*                                                                         *)
(*   EventManager  (event_manager.cpp): start, stop, the bus callback,     *)
(*                 onMotionStart, onMotionStop, joinOrphanedThreads and    *)
(*                 the event thread processEvent with its thread wrapper.  *)
(*   MqttClient    (mqtt_client.cpp):   subscribe, connected,              *)
(*                 message_arrived, publish.                               *)
(*   FramePool     (frame_data.h):      acquire, recycle, available,       *)
(*                 in_use.                                                 *)
(*   CameraBuffer  (camera_buffer.h):   push, getLatestFrame, getBuffer.   *)
(*                                                                         *)
(* Every section of code that runs under one mutex is one atomic action;   *)
(* code between two critical sections is a separate action, so that the    *)
(* interleavings of the bus thread, the thread calling stop() and the      *)
(* event threads are those of the program.                                 *)
(***************************************************************************)
EXTENDS Integers, Sequences, FiniteSets, TLC

----------------------------------------------------------------------------
(* Bounds of the model *)

\* total number of event threads spawned in one run
MaxEvents == 2
\* number of calls of EventManager::start()
MaxStarts == 1
\* number of calls of EventManager::stop()
MaxStops == 1
\* frames a recording may hold: stands for fps_ * MAX_DURATION_SECONDS
MaxFrames == 2
\* capacity of a camera's ring buffer
RingCap == 1
\* largest post_roll_seconds a start trigger carries
MaxPostRoll == 1
\* number of distinct frame dimensions a camera may deliver
MaxDims == 1
\* capacity of the frame pool
PoolCap == 2
\* shared_ptr copies of one pooled frame
MaxRefs == 2
\* largest frame_number the capture stamps in the pool model
MaxFrameNo == 2
\* capacity of a ring buffer that holds more frames than a recording may
BigRingCap == 3
\* frames the writer of the ring-buffer model pushes
MaxPushes == 5
\* written frames between two detection samples: stands for
\* DETECTION_SAMPLE_INTERVAL
SampleInterval == 1
\* detections one sample may return
MaxDets == 1
\* frames the capture thread stamps and delivers
MaxCaptured == 3
\* consecutive failed opens of the stream that are followed
MaxFailures == 6
\* characters of a subscription pattern and of a topic
MaxPatternLen == 3
MaxTopicLen == 3
\* detections one event collects
MaxAllDets == 3
\* boxes handed to one non-maximum suppression
MaxNmsDets == 3
\* candidates of one output tensor
MaxCandidates == 2
\* characters of a vision response
MaxTextLen == 5
\* widths and heights of the frames a camera may deliver
MaxFrameWidth == 2
MaxFrameHeight == 3
\* the least length of a valid vision response, scaled down from the 15
\* characters of vision_client.cpp:120
MinContextLen == 3

----------------------------------------------------------------------------
(* Program constants and value sets *)

TopicStart == "camera/event/motion/start"
TopicStop  == "camera/event/motion/stop"
Topics     == {TopicStart, TopicStop}

\* cameras of config_.cameras: BufferService holds a CameraBuffer for each
Cameras == {"cam1", "cam2"}
\* a camera id no CameraBuffer exists for
UnknownCam == "camX"
AllCams == Cameras \cup {UnknownCam}

\* what json::parse and msg.value("camera_id", "") make of a payload
BadJson  == "bad_json"
NoCamera == "no_camera_id"
Payloads == {BadJson, NoCamera} \cup AllCams

EventIds == 1 .. MaxEvents
Frames   == 1 .. PoolCap
NoEvent  == 0
\* the largest size_t: 2^64 - 1 in the program, the largest number the
\* model checker holds here; only a wrapped difference comes near it
SizeMax  == 2147483647

VARIABLES
    \* --- MqttClient ---
    connected,        \* client_->is_connected()
    subscriptions_,   \* topics with a registered callback
    pending_subs_,    \* subscriptions saved for re-subscribe on reconnect
    brokerSubs,       \* topics the broker forwards in the current session
    status_retained,  \* the broker's retained message of {prefix}/status
    \* --- EventManager ---
    running_,
    active_events_,   \* camera id -> ActiveEvent (named by its event)
    orphaned_threads_,
    nextId,           \* events generated so far + 1
    starts, stops,    \* calls of start() and stop() made
    \* --- ActiveEvent records and their threads ---
    evCam,            \* camera_id captured by the thread lambda
    evPostRoll,       \* post_roll_seconds captured by the thread lambda
    stop_requested,   \* ActiveEvent::stop_requested
    running,          \* ActiveEvent::running
    freed,            \* the ActiveEvent has been destroyed
    thread,           \* where the std::thread handle of the event is
    \* --- processEvent (locals of each event thread) ---
    pc,
    my_event,         \* ActiveEvent* my_event
    pool_frames,      \* the ring-buffer snapshot (pooled handles) held
    width,            \* frame dimensions fixed for the recorder
    frames_written,   \* EventRecorder::frames_written_
    rec_stop,         \* EventRecorder::stop_requested_
    elapsed,          \* seconds since EventRecorder::stop_requested_time_
    result,           \* how processEvent ended (its last log line)
    pub,              \* bus messages published by the event thread
    \* --- stop() and the bus callback in progress ---
    stopPc, threads_to_join,
    cbPc, cbMsg,
    \* --- CameraBuffer of each configured camera ---
    buffer,
    \* --- FramePool ---
    free_list_,       \* std::queue of free frames
    fstate,           \* where each preallocated frame is
    refs,             \* shared_ptr use count of each frame
    frame_number,     \* FrameData::frame_number
    acquired,         \* what the last acquire() returned
    \* --- configuration fixed at construction ---
    engine_loaded,    \* engine && engine->isLoaded()
    db_,              \* a database pool was given (db_ != nullptr)
    llava_enabled,    \* config_.llava.enabled
    \* --- processEvent: detection, vision and database (per event) ---
    frames_since_detection,
    inference_count,  \* processEvent: the calls of detect() made for the event
    all_detections,   \* all_detections.size()
    early_notification_sent,
    llava_thread,     \* the vision thread launched by the event thread
    db_log,           \* EventLogger calls made, each with its outcome
    best_confidence,  \* processEvent: 0, or the level of the best detection
    snapshot_path,    \* processEvent: early_snapshot_path, then snapshot_path
    vision_sync,      \* processEvent: the synchronous VisionClient::analyze
    \* --- CameraBuffer under a writer and readers ---
    ring_locked,      \* the writer holds the unique_lock of push()
    pushed,           \* frames pushed since construction or clear()
    snapshot,         \* what the reader's last getBuffer() returned
    prev_snapshot,    \* and the one before
    \* --- RtspCapture::captureLoop ---
    capPc,
    stream_open,      \* fmt_ctx_ != nullptr
    backoff_seconds,
    frame_counter,
    cap_frame,        \* the pooled frame the capture thread holds
    waited,           \* a back-off wait was made since the last closeStream
    reader_frames,    \* the handles a reader got from getBuffer()
    consecutive_failures_, \* RtspCapture: failed opens since the last good one
    args,             \* the arguments of a call of a function under test
    ret,              \* what the call returned
    hpc,              \* processEvent: where the event thread is with its frames
    held,             \* processEvent: the pooled frames it holds a handle of
    preroll_frames,   \* processEvent: the owned copies of the pre-roll frames
    best_frame,       \* processEvent: "none", or "copy" for an owned copy
    mainPc,           \* main: where the main thread is
    ev_thread,        \* the event thread of the camera, from its trigger on
    capture_running_, \* RtspCapture::running_
    service_owners,   \* the holders of a shared_ptr<BufferService>
    svcPc,            \* ~BufferService: the member of CameraState it is at
    pool_alive        \* the FramePool of the camera exists

mqttVars  == <<connected, subscriptions_, pending_subs_, brokerSubs, status_retained>>
mgrVars   == <<running_, active_events_, orphaned_threads_, nextId, starts, stops>>
evVars    == <<evCam, evPostRoll, stop_requested, running, freed, thread>>
visVars   == <<best_confidence, snapshot_path, vision_sync>>
detVars   == <<frames_since_detection, inference_count, all_detections, early_notification_sent,
               llava_thread, db_log, visVars>>
taskVars  == <<pc, my_event, pool_frames, width, frames_written, rec_stop,
               elapsed, result, pub, detVars>>
stopVars  == <<stopPc, threads_to_join>>
cbVars    == <<cbPc, cbMsg>>
poolVars  == <<free_list_, fstate, refs, frame_number, acquired>>
cfgVars   == <<engine_loaded, db_, llava_enabled>>
ringVars  == <<ring_locked, pushed, snapshot, prev_snapshot>>
capVars   == <<capPc, stream_open, backoff_seconds, frame_counter, cap_frame,
               waited, reader_frames, consecutive_failures_>>
\* the orchestrator's variables, and what surrounds the orchestrator
orchVars  == <<mqttVars, mgrVars, evVars, taskVars, stopVars, cbVars>>
fnVars    == <<args, ret>>
handleVars == <<hpc, held, preroll_frames, best_frame>>
mainVars  == <<mainPc, ev_thread, capture_running_, service_owners, svcPc, pool_alive>>
envVars   == <<poolVars, cfgVars, mainVars, ringVars, capVars, fnVars, handleVars>>
vars == <<orchVars, buffer, envVars>>

----------------------------------------------------------------------------
(* Helpers *)

Min(a, b) == IF a < b THEN a ELSE b

NoMsg == [topic |-> "", camera_id |-> "", post_roll |-> 0]

\* main.cpp:27 and :115-116, event_manager.cpp:21: g_buffer_service, the
\* member of the EventManager and the static members of the controllers
ServiceOwners == {"main", "manager", "controllers"}

\* no function under test is called, or the call has not returned
NoCall == [f |-> "none"]

\* a sequence without its elements outside S
RECURSIVE SelectIn(_, _)
SelectIn(s, S) ==
    IF s = <<>> THEN <<>>
    ELSE IF Head(s) \in S THEN <<Head(s)>> \o SelectIn(Tail(s), S)
         ELSE SelectIn(Tail(s), S)

RECURSIVE UnionAll(_)
UnionAll(s) == IF s = <<>> THEN {} ELSE Head(s) \cup UnionAll(Tail(s))


----------------------------------------------------------------------------
(* CameraBuffer: a ring of capacity_ slots, head_ the next write position  *)

\* CameraBuffer::CameraBuffer(capacity): 0 stands for an empty slot
NewBuffer(capacity) ==
    [buffer_ |-> [i \in 0 .. capacity - 1 |-> 0], head_ |-> 0, count_ |-> 0,
     capacity_ |-> capacity]

EmptyBuffer == NewBuffer(RingCap)

\* push(), line 92: buffer_[head_] = std::move(frame)
PushWrite(b, frame) == [b EXCEPT !.buffer_[b.head_] = frame]

\* a push() that leaves head_ where it was
PushAdvance_HeadStuck(b) ==
    [b EXCEPT !.count_ = IF b.count_ < b.capacity_ THEN b.count_ + 1 ELSE b.count_]

\* push(), lines 93-94: head_ moves on and count_ grows up to capacity_
PushAdvance(b) ==
    [b EXCEPT !.head_  = (b.head_ + 1) % b.capacity_,
              !.count_ = IF b.count_ < b.capacity_ THEN b.count_ + 1 ELSE b.count_]

\* CameraBuffer::push, the whole critical section
Push(b, frame) == PushAdvance(PushWrite(b, frame))

\* CameraBuffer::getLatestFrame, 0 for nullptr
GetLatestFrame(b) ==
    IF b.count_ = 0 THEN 0
    ELSE b.buffer_[(b.head_ + b.capacity_ - 1) % b.capacity_]

\* CameraBuffer::getBuffer, oldest to newest
GetBuffer(b) ==
    LET start == (b.head_ + b.capacity_ - b.count_) % b.capacity_
    IN  [i \in 1 .. b.count_ |-> b.buffer_[(start + i - 1) % b.capacity_]]

\* CameraBuffer::size
Size(b) == b.count_

\* CameraBuffer::clear
Clear(b) ==
    [b EXCEPT !.buffer_ = [i \in 0 .. b.capacity_ - 1 |-> 0],
              !.head_ = 0, !.count_ = 0]

\* BufferService::getCameraBuffer: nullptr for a camera it does not hold
HasCameraBuffer(cam) == cam \in Cameras

----------------------------------------------------------------------------
(* MqttClient *)

\* MqttClient::subscribe: the callback is registered and the subscription
\* saved whether or not the client is connected; the broker is asked only
\* when it is
MqttSubscribe(topics) ==
    /\ subscriptions_' = subscriptions_ \cup topics
    /\ pending_subs_' = Append(pending_subs_, topics)
    /\ brokerSubs' = IF connected THEN brokerSubs \cup topics ELSE brokerSubs

\* the constructor, lines 18-20: the last will of the client, which the
\* broker publishes retained on {prefix}/status when the connection is lost
Will == "offline"

\* main, part_008 lines 130-138: connect(), and "online" published retained
\* on {prefix}/status if it returned true
StatusAtStartup(ok) == IF ok THEN "online" ELSE "none"

\* MqttClient::connected: the connection is up (first connect or automatic
\* reconnect) and every saved subscription is sent to the broker again;
\* nothing is published
MqttConnected ==
    /\ ~connected
    /\ connected' = TRUE
    /\ brokerSubs' = UnionAll(pending_subs_)
    /\ UNCHANGED <<subscriptions_, pending_subs_, status_retained>>
    /\ UNCHANGED <<mgrVars, evVars, taskVars, stopVars, cbVars, buffer, envVars>>

\* MqttClient::connection_lost: clean_session(true), so the broker forgets
\* the subscriptions of the session
MqttConnectionLost ==
    /\ connected
    /\ connected' = FALSE
    /\ brokerSubs' = {}
    /\ status_retained' = Will
    /\ UNCHANGED <<subscriptions_, pending_subs_>>
    /\ UNCHANGED <<mgrVars, evVars, taskVars, stopVars, cbVars, buffer, envVars>>

\* MqttClient::publish(topic, payload, int qos = 1, bool retain = false):
\* the defaults of the arguments the event thread leaves out
DefaultQos == 1
DefaultRetain == FALSE

\* a publish call of the event thread: topic and payload only
BusMsg(topic, payload) ==
    [topic |-> topic, payload |-> payload, qos |-> DefaultQos,
     retain |-> DefaultRetain, sent |-> FALSE]

\* MqttClient::publish by event thread e: each call is logged; the message
\* is handed to the broker when the client is connected and dropped when
\* it is not
Published(e, msgs) ==
    [pub EXCEPT ![e] = pub[e] \o [i \in 1 .. Len(msgs) |->
                                     [msgs[i] EXCEPT !.sent = connected]]]

----------------------------------------------------------------------------
(* EventManager::start and the bus callback *)

\* event_manager.cpp:35: subscriptions are made only on a connected client
StartSubscribes == connected

Start ==
    /\ starts < MaxStarts
    /\ stopPc \in {"idle", "returned"}
    /\ starts' = starts + 1
    /\ stopPc' = "idle"
    /\ running_' = TRUE
    /\ IF StartSubscribes
       THEN MqttSubscribe(Topics)
       ELSE UNCHANGED <<subscriptions_, pending_subs_, brokerSubs>>
    /\ UNCHANGED <<connected, status_retained, active_events_, orphaned_threads_, nextId, stops>>
    /\ UNCHANGED <<evVars, taskVars, threads_to_join, cbVars, buffer, envVars>>

\* the bus delivers a message on `topic` to this client
Delivered(topic) ==
    connected /\ topic \in brokerSubs /\ topic \in subscriptions_

\* the callback of start(), lines 47-55: what a payload is parsed to, or
\* the reason the message is dropped before a handler is called
CallbackDrops(payload) ==
    \/ ~running_
    \/ payload = BadJson
    \/ payload = NoCamera

\* MqttClient::message_arrived runs the callback on the bus thread; the
\* callback returns at once or goes on to onMotionStart / onMotionStop
CallbackEnter(topic, payload, post_roll) ==
    /\ cbPc = "idle"
    /\ Delivered(topic)
    /\ topic = TopicStart => nextId <= MaxEvents
    /\ topic = TopicStop => post_roll = 0
    /\ IF CallbackDrops(payload)
       THEN UNCHANGED cbVars
       ELSE /\ cbPc' = IF topic = TopicStart THEN "start" ELSE "stop"
            /\ cbMsg' = [topic |-> topic, camera_id |-> payload,
                         post_roll |-> post_roll]
    /\ UNCHANGED <<mqttVars, mgrVars, evVars, taskVars, stopVars, buffer, envVars>>

\* EventManager::joinOrphanedThreads: every joinable orphan is detached
JoinOrphanedThreads ==
    /\ cbPc = "start"
    /\ cbPc' = "start_locked"
    /\ thread' = [e \in EventIds |->
                    IF e \in orphaned_threads_ /\ thread[e] = "orphan"
                    THEN "detached" ELSE thread[e]]
    /\ orphaned_threads_' = {}
    /\ UNCHANGED <<running_, active_events_, nextId, starts, stops>>
    /\ UNCHANGED <<evCam, evPostRoll, stop_requested, running, freed>>
    /\ UNCHANGED <<mqttVars, taskVars, stopVars, cbMsg, buffer, envVars>>

\* event_manager.cpp:117-118: an event is registered for the camera
EventActive(cam) == active_events_[cam] # NoEvent

\* the events registered in the active-events map
Registered == {active_events_[c] : c \in {d \in AllCams : EventActive(d)}}

\* EventManager::onMotionStart, the section under events_mutex_
OnMotionStart ==
    /\ cbPc = "start_locked"
    /\ cbPc' = "idle"
    /\ cbMsg' = NoMsg
    /\ LET cam == cbMsg.camera_id
           e   == nextId
       IN  IF EventActive(cam)
           THEN UNCHANGED <<active_events_, nextId, evVars, pc>>
           ELSE /\ active_events_' = [active_events_ EXCEPT ![cam] = e]
                /\ nextId' = nextId + 1
                /\ evCam' = [evCam EXCEPT ![e] = cam]
                /\ evPostRoll' = [evPostRoll EXCEPT ![e] = cbMsg.post_roll]
                /\ thread' = [thread EXCEPT ![e] = "event"]
                /\ pc' = [pc EXCEPT ![e] = "find"]
                /\ UNCHANGED <<stop_requested, running, freed>>
    /\ UNCHANGED <<running_, orphaned_threads_, starts, stops>>
    /\ UNCHANGED <<my_event, pool_frames, width, frames_written, rec_stop,
                   elapsed, result, pub>>
    /\ UNCHANGED <<mqttVars, stopVars, buffer, detVars, envVars>>

\* a stop trigger that sets the flag of every registered event
StopTargets_AllEvents(cam) == Registered

\* event_manager.cpp:143-145: the events whose stop flag a stop trigger sets
StopTargets(cam) == IF EventActive(cam) THEN {active_events_[cam]} ELSE {}

\* EventManager::onMotionStop
OnMotionStop ==
    /\ cbPc = "stop"
    /\ cbPc' = "idle"
    /\ cbMsg' = NoMsg
    /\ stop_requested' = [e \in EventIds |->
                            IF e \in StopTargets(cbMsg.camera_id)
                            THEN TRUE ELSE stop_requested[e]]
    /\ UNCHANGED <<evCam, evPostRoll, running, freed, thread>>
    /\ UNCHANGED <<mqttVars, mgrVars, taskVars, stopVars, buffer, envVars>>

----------------------------------------------------------------------------
(* EventManager::stop *)

\* stop(), line 72
StopBegin ==
    /\ stopPc \in {"idle", "returned"}
    /\ stops < MaxStops
    /\ stops' = stops + 1
    /\ running_' = FALSE
    /\ stopPc' = "collect"
    /\ UNCHANGED <<active_events_, orphaned_threads_, nextId, starts>>
    /\ UNCHANGED <<mqttVars, evVars, taskVars, threads_to_join, cbVars, buffer,
                   envVars>>

\* stop(), lines 75-95, under events_mutex_: every flag is set, the
\* joinable threads are moved out, the map is cleared (which destroys the
\* ActiveEvent records) and the orphaned threads are collected
StopCollect ==
    /\ stopPc = "collect"
    /\ stopPc' = "join"
    /\ LET fromEvents  == {e \in Registered : thread[e] = "event"}
           fromOrphans == {e \in orphaned_threads_ : thread[e] = "orphan"}
       IN  /\ stop_requested' = [e \in EventIds |->
                                   IF e \in Registered THEN TRUE
                                   ELSE stop_requested[e]]
           /\ freed' = [e \in EventIds |-> freed[e] \/ e \in Registered]
           /\ thread' = [e \in EventIds |->
                           IF e \in fromEvents \cup fromOrphans
                           THEN "to_join" ELSE thread[e]]
           /\ threads_to_join' = fromEvents \cup fromOrphans
    /\ active_events_' = [c \in AllCams |-> NoEvent]
    /\ orphaned_threads_' = {}
    /\ UNCHANGED <<running_, nextId, starts, stops>>
    /\ UNCHANGED <<evCam, evPostRoll, running>>
    /\ UNCHANGED <<mqttVars, taskVars, cbVars, buffer, envVars>>

\* stop(), lines 98-100: t.join() returns once the thread has ended.  The
\* threads are joined one after the other; the order does not show in any
\* other variable, so the set stands for the vector.
StopJoin(e) ==
    /\ stopPc = "join"
    /\ e \in threads_to_join
    /\ pc[e] = "done"
    /\ threads_to_join' = threads_to_join \ {e}
    /\ thread' = [thread EXCEPT ![e] = "joined"]
    /\ UNCHANGED <<evCam, evPostRoll, stop_requested, running, freed>>
    /\ UNCHANGED <<mqttVars, mgrVars, taskVars, stopPc, cbVars, buffer, envVars>>

\* stop() returns
StopReturn ==
    /\ stopPc = "join"
    /\ threads_to_join = {}
    /\ stopPc' = "returned"
    /\ UNCHANGED <<mqttVars, mgrVars, evVars, taskVars, threads_to_join, cbVars,
                   buffer, envVars>>

----------------------------------------------------------------------------
(* The capture thread of a camera pushes a decoded frame; in this part of  *)
(* the model a frame is its dimensions                                     *)

Capture(c, w) ==
    /\ buffer' = [buffer EXCEPT ![c] = Push(buffer[c], w)]
    /\ UNCHANGED <<mqttVars, mgrVars, evVars, taskVars, stopVars, cbVars, envVars>>

----------------------------------------------------------------------------
(* The event thread: processEvent and the thread lambda around it *)

\* a read of my_event->stop_requested: any value once the record is freed
ReadStop(e) ==
    IF freed[my_event[e]] THEN BOOLEAN ELSE {stop_requested[my_event[e]]}

\* EventRecorder::isMaxDurationReached
IsMaxDurationReached(e) == frames_written[e] >= MaxFrames

\* EventRecorder::isPostRollComplete
IsPostRollComplete(e) == rec_stop[e] /\ elapsed[e] >= evPostRoll[e]

\* a writeFrame() that never refuses a frame
WriteFrameAt_NoLimit(written) == written + 1

\* EventRecorder::writeFrame on a recorder that has written `written`
\* frames: refused at the maximum duration
WriteFrameAt(written) ==
    IF written >= MaxFrames THEN written ELSE written + 1

\* EventRecorder::writeFrame by event thread e
WriteFrame(e) == WriteFrameAt(frames_written[e])

\* EventRecorder::start, lines 150-155: writeFrame for each of n pre-roll
\* frames of the recorder's dimensions
RECURSIVE WritePreroll(_, _)
WritePreroll(written, n) ==
    IF n = 0 THEN written ELSE WritePreroll(WriteFrameAt(written), n - 1)

\* processEvent returns: the thread goes on in the lambda, line 131
Return(e, how) ==
    /\ pc' = [pc EXCEPT ![e] = "wrapper"]
    /\ result' = [result EXCEPT ![e] = how]

\* lines 173-182: look the event up under events_mutex_
TaskFind(e) ==
    /\ pc[e] = "find"
    /\ my_event' = [my_event EXCEPT ![e] = active_events_[evCam[e]]]
    /\ IF ~EventActive(evCam[e])
       THEN Return(e, "no_event")
       ELSE pc' = [pc EXCEPT ![e] = "begin"] /\ UNCHANGED result
    /\ UNCHANGED <<pool_frames, width, frames_written, rec_stop, elapsed, pub>>
    /\ UNCHANGED <<mqttVars, mgrVars, evVars, stopVars, cbVars, buffer, detVars, envVars>>

\* lines 184-206: publish "started", get the camera buffer, take the
\* pre-roll snapshot
TaskBegin(e) ==
    /\ pc[e] = "begin"
    /\ pub' = Published(e, <<BusMsg("detection", "started")>>)
    /\ IF ~HasCameraBuffer(evCam[e])
       THEN Return(e, "no_buffer") /\ UNCHANGED pool_frames
       ELSE /\ pool_frames' = [pool_frames EXCEPT ![e] = GetBuffer(buffer[evCam[e]])]
            /\ pc' = [pc EXCEPT ![e] = "dims"]
            /\ UNCHANGED result
    /\ UNCHANGED <<my_event, width, frames_written, rec_stop, elapsed>>
    /\ UNCHANGED <<mqttVars, mgrVars, evVars, stopVars, cbVars, buffer, detVars, envVars>>

\* lines 222-230: the dimensions of the first pre-roll frame, else of the
\* latest frame, else 0
FrameDims(preroll, latest) ==
    IF preroll # <<>> THEN preroll[1] ELSE latest

\* lines 207-246: the snapshot is copied and dropped, the dimensions are
\* determined and the recorder is started, which writes the pre-roll
\* frames of these dimensions
TaskDims(e) ==
    /\ pc[e] = "dims"
    /\ pool_frames' = [pool_frames EXCEPT ![e] = <<>>]
    /\ LET w  == FrameDims(pool_frames[e], GetLatestFrame(buffer[evCam[e]]))
           n  == Len(SelectIn(pool_frames[e], {w}))
       IN  IF w = 0
           THEN Return(e, "no_frames") /\ UNCHANGED <<width, frames_written>>
           ELSE \/ /\ Return(e, "recorder_failed")
                   /\ UNCHANGED <<width, frames_written>>
                \/ /\ width' = [width EXCEPT ![e] = w]
                   /\ frames_written' = [frames_written EXCEPT ![e] = WritePreroll(0, n)]
                   /\ pc' = [pc EXCEPT ![e] = "live"]
                   /\ UNCHANGED result
    /\ UNCHANGED <<my_event, rec_stop, elapsed, pub>>
    /\ UNCHANGED <<mqttVars, mgrVars, evVars, stopVars, cbVars, buffer, detVars, envVars>>

\* an early notification for every sample with detections
EarlyDue_EveryDetection(dets, sent) == dets > 0

\* lines 329 and 443: the early notification is due (mqtt_ is never null
\* in an event thread: start() subscribes only with a client)
EarlyDue(dets, sent) == dets > 0 /\ ~sent

\* lines 352-353 and 462-463
EarlyNotification == <<BusMsg("result", "early"), BusMsg("detected", "ON")>>

\* DetectionEngine::detect, vision_client.cpp:927: without a session the
\* engine returns no detections, whatever the frame shows
Detect(loaded, found) == IF ~loaded THEN 0 ELSE found

\* a sample that is taken whether or not an engine is loaded
SampleDue_EngineIgnored(loaded, n) == n >= SampleInterval

\* lines 308 and 427: engine && engine->isLoaded() &&
\* frames_since_detection >= DETECTION_SAMPLE_INTERVAL
SampleDue(loaded, n) == loaded /\ n >= SampleInterval

\* the confidence of a detection, as the gates see it: 1 for one below the
\* camera's immediate_notification_confidence, 2 for one that meets it
ConfLevels == {1, 2}

\* lines 376-377 and 716-717: conf_gate
ConfGate == 2

\* lines 321-327: best_confidence after a sample whose detections have
\* the confidence conf; best_detections is empty as long as it is 0
BestConfidence(dets, conf, best) ==
    IF dets > 0 /\ conf > best THEN conf ELSE best

\* SnapshotWriter::save, lines 363 and 531: the path of the file written,
\* empty when the snapshot could not be saved
SnapshotSave(saved, path) == IF saved THEN path ELSE ""

\* lines 373-379: the vision thread is launched
LaunchDue(enabled, early_snapshot_path, det_conf) ==
    enabled /\ early_snapshot_path # "" /\ det_conf >= ConfGate

\* lines 305-405 and 424-504: after a written frame, the detection sample
\* that is due every SampleInterval frames when an engine is loaded; on
\* the first sample with detections the early notification is published
\* and, with a vision model configured, a saved snapshot and a confident
\* detection, the vision thread is launched
SampleDetection(e) ==
    LET n == Min(frames_since_detection[e] + 1, SampleInterval)
    IN  IF SampleDue(engine_loaded, n)
        THEN /\ frames_since_detection' = [frames_since_detection EXCEPT ![e] = 0]
             /\ inference_count' = [inference_count EXCEPT ![e] = @ + 1]
             /\ \E found \in 0 .. MaxDets, conf \in ConfLevels, saved \in BOOLEAN :
                  LET dets == Detect(engine_loaded, found)
                      best == BestConfidence(dets, conf, best_confidence[e])
                      path == SnapshotSave(saved, "early")
                  IN
                  /\ all_detections' = [all_detections EXCEPT ![e] = @ + dets]
                  /\ best_confidence' = [best_confidence EXCEPT ![e] = best]
                  /\ IF EarlyDue(dets, early_notification_sent[e])
                     THEN /\ pub' = Published(e, EarlyNotification)
                          /\ early_notification_sent' =
                                [early_notification_sent EXCEPT ![e] = TRUE]
                          /\ snapshot_path' = [snapshot_path EXCEPT ![e] = path]
                          /\ llava_thread' = [llava_thread EXCEPT ![e] =
                                IF LaunchDue(llava_enabled, path, best)
                                THEN "running" ELSE @]
                     ELSE UNCHANGED <<pub, early_notification_sent, llava_thread,
                                      snapshot_path>>
        ELSE /\ frames_since_detection' = [frames_since_detection EXCEPT ![e] = n]
             /\ UNCHANGED <<inference_count, all_detections, early_notification_sent,
                            llava_thread, pub, best_confidence, snapshot_path>>

\* lines 297-417: one evaluation of the live loop's condition and, when it
\* holds, one iteration; when it fails, recorder.requestStop
TaskLive(e) ==
    /\ pc[e] = "live"
    /\ \E stop \in ReadStop(e) :
        IF stop \/ IsMaxDurationReached(e)
        THEN /\ pc' = [pc EXCEPT ![e] = "postroll"]
             /\ rec_stop' = [rec_stop EXCEPT ![e] = TRUE]
             /\ elapsed' = [elapsed EXCEPT ![e] = 0]
             /\ UNCHANGED <<frames_written, pub, frames_since_detection, inference_count,
                            all_detections, early_notification_sent, llava_thread,
                            best_confidence, snapshot_path>>
        ELSE /\ IF GetLatestFrame(buffer[evCam[e]]) = width[e]
                THEN /\ frames_written' = [frames_written EXCEPT ![e] = WriteFrame(e)]
                     /\ SampleDetection(e)
                ELSE UNCHANGED <<frames_written, pub, frames_since_detection, inference_count,
                                 all_detections, early_notification_sent,
                                 llava_thread, best_confidence, snapshot_path>>
             /\ UNCHANGED <<pc, rec_stop, elapsed>>
    /\ UNCHANGED <<my_event, pool_frames, width, result, db_log, vision_sync>>
    /\ UNCHANGED <<mqttVars, mgrVars, evVars, stopVars, cbVars, buffer, envVars>>

\* lines 418-512: one evaluation of the post-roll loop's condition and,
\* when it holds, one iteration
TaskPostRoll(e) ==
    /\ pc[e] = "postroll"
    /\ \E stop \in ReadStop(e) :
        IF ~stop /\ ~IsPostRollComplete(e) /\ ~IsMaxDurationReached(e)
        THEN /\ IF GetLatestFrame(buffer[evCam[e]]) = width[e]
                THEN /\ frames_written' = [frames_written EXCEPT ![e] = WriteFrame(e)]
                     /\ SampleDetection(e)
                ELSE UNCHANGED <<frames_written, pub, frames_since_detection, inference_count,
                                 all_detections, early_notification_sent,
                                 llava_thread, best_confidence, snapshot_path>>
             /\ UNCHANGED pc
        ELSE /\ pc' = [pc EXCEPT ![e] = "finalize"]
             /\ UNCHANGED <<frames_written, pub, frames_since_detection, inference_count,
                            all_detections, early_notification_sent, llava_thread,
                            best_confidence, snapshot_path>>
    /\ UNCHANGED <<my_event, pool_frames, width, rec_stop, elapsed, result, db_log,
                   vision_sync>>
    /\ UNCHANGED <<mqttVars, mgrVars, evVars, stopVars, cbVars, buffer, envVars>>

\* a second of wall-clock time passes for a recorder in its post-roll
Tick(e) ==
    /\ pc[e] = "postroll"
    /\ elapsed[e] < evPostRoll[e]
    /\ elapsed' = [elapsed EXCEPT ![e] = elapsed[e] + 1]
    /\ UNCHANGED <<pc, my_event, pool_frames, width, frames_written, rec_stop,
                   result, pub>>
    /\ UNCHANGED <<mqttVars, mgrVars, evVars, stopVars, cbVars, buffer, detVars, envVars>>

\* final messages with the completed status ahead of the result
FinalMessages_CompletedFirst(e) ==
    <<BusMsg("detection", "completed"), BusMsg("result", "final")>>

\* lines 606-649: the final result, the binary state unless the early
\* notification has set it, the completed status and, after detections,
\* the reset of the binary state
\* a final publication that leaves the binary state as it is
FinalMessages_NoReset(e) ==
    <<BusMsg("result", "final")>>
    \o (IF ~early_notification_sent[e]
        THEN <<BusMsg("detected", IF all_detections[e] = 0 THEN "OFF" ELSE "ON")>>
        ELSE <<>>)
    \o <<BusMsg("detection", "completed")>>

FinalMessages(e) ==
    <<BusMsg("result", "final")>>
    \o (IF ~early_notification_sent[e]
        THEN <<BusMsg("detected", IF all_detections[e] = 0 THEN "OFF" ELSE "ON")>>
        ELSE <<>>)
    \o <<BusMsg("detection", "completed")>>
    \o (IF all_detections[e] > 0 THEN <<BusMsg("detected", "OFF")>> ELSE <<>>)

\* line 709: the synchronous call is considered when no vision thread was
\* launched
SyncDue(e, path) ==
    llava_enabled /\ path # "" /\ best_confidence[e] > 0 /\ ~early_notification_sent[e]

\* lines 673 and 709: llava_thread.joinable(), or else the fallback
VisionDue(e, path) == llava_thread[e] # "none" \/ SyncDue(e, path)

\* where processEvent goes on after the database block
AfterDb(e, path) == IF VisionDue(e, path) THEN "vision" ELSE "cleanup"

\* lines 527-533: the snapshot of the best frame, saved now when none was
\* saved with the early notification
FinalSnapshot(e, saved) ==
    IF best_confidence[e] > 0 /\ snapshot_path[e] = ""
    THEN SnapshotSave(saved, "final") ELSE snapshot_path[e]

\* lines 518-649: finalize the recording, save the snapshot and publish
\* the final messages
TaskFinalize(e) ==
    /\ pc[e] = "finalize"
    /\ pub' = Published(e, FinalMessages(e))
    /\ \E saved \in BOOLEAN :
          /\ snapshot_path' = [snapshot_path EXCEPT ![e] = FinalSnapshot(e, saved)]
          /\ pc' = [pc EXCEPT ![e] = IF db_ THEN "log_db"
                                     ELSE AfterDb(e, FinalSnapshot(e, saved))]
    /\ UNCHANGED <<my_event, pool_frames, width, frames_written, rec_stop,
                   elapsed, result>>
    /\ UNCHANGED <<frames_since_detection, inference_count, all_detections,
                   early_notification_sent, llava_thread, db_log, best_confidence,
                   vision_sync>>
    /\ UNCHANGED <<mqttVars, mgrVars, evVars, stopVars, cbVars, buffer, envVars>>

\* an EventLogger call that lets its failure out to the caller
DbProceeds_OnlyOnSuccess(ok) == ok

\* EventLogger::create_event and the other calls catch their own
\* exception: the call returns to processEvent whatever its outcome
DbProceeds(ok) == TRUE

\* the calls of one try block, made one after the other until one of them
\* throws into the catch of the block
RECURSIVE DbCalls(_, _)
DbCalls(calls, oks) ==
    IF calls = <<>> THEN <<>>
    ELSE <<[call |-> Head(calls), ok |-> Head(oks)]>>
         \o (IF DbProceeds(Head(oks)) THEN DbCalls(Tail(calls), Tail(oks)) ELSE <<>>)

\* lines 651-669: the three EventLogger calls, each of which may fail
\* (log_detections has nothing to do, and to fail on, without detections)
TaskLogDb(e) ==
    /\ pc[e] = "log_db"
    /\ \E ok1, ok2, ok3 \in BOOLEAN :
          /\ all_detections[e] = 0 => ok2
          /\ db_log' = [db_log EXCEPT ![e] =
                @ \o DbCalls(<<"create_event", "log_detections", "complete_event">>,
                             <<ok1, ok2, ok3>>)]
    /\ pc' = [pc EXCEPT ![e] = AfterDb(e, snapshot_path[e])]
    /\ UNCHANGED <<my_event, pool_frames, width, frames_written, rec_stop,
                   elapsed, result, pub>>
    /\ UNCHANGED <<frames_since_detection, inference_count, all_detections, early_notification_sent,
                   llava_thread, visVars>>
    /\ UNCHANGED <<mqttVars, mgrVars, evVars, stopVars, cbVars, buffer, envVars>>

\* the vision thread, lines 381-390: VisionClient::analyze returns a valid
\* or an invalid result, or throws, which leaves llava_valid false
LlavaFinish(e) ==
    /\ llava_thread[e] = "running"
    /\ \E r \in {"valid", "invalid"} :
          llava_thread' = [llava_thread EXCEPT ![e] = r]
    /\ UNCHANGED <<pc, my_event, pool_frames, width, frames_written, rec_stop,
                   elapsed, result, pub>>
    /\ UNCHANGED <<frames_since_detection, inference_count, all_detections, early_notification_sent,
                   db_log, visVars>>
    /\ UNCHANGED <<mqttVars, mgrVars, evVars, stopVars, cbVars, buffer, envVars>>

\* a join() that returns while the thread still runs
JoinReturns_AtOnce(state) == TRUE

\* line 674: llava_thread.join() returns when the thread function has
\* returned
JoinReturns(state) == state \in {"valid", "invalid"}

\* the vision thread after the join, with llava_valid as the event thread
\* reads it at line 676
AfterJoin(state) ==
    IF state = "valid" THEN "joined_valid"
    ELSE IF state = "invalid" THEN "joined_invalid" ELSE state

\* a context that is published whatever the validity of the result
ContextDue_Always(valid) == TRUE

\* lines 676 and 722: llava_valid && mqtt_, vr.is_valid && mqtt_
ContextDue(valid) == valid

\* lines 691-703: db_ && llava_valid
ContextRowDue(valid) == db_ /\ valid

\* lines 741-754: db_
SyncContextRowDue(valid) == db_

\* lines 690 and 727: the context message
ContextMsg == <<BusMsg("context", "llava")>>

\* lines 673-708: the vision thread is joined, which waits for its end; a
\* valid context is published and, with a database, logged
JoinVision(e) ==
    /\ JoinReturns(llava_thread[e])
    /\ llava_thread' = [llava_thread EXCEPT ![e] = AfterJoin(@)]
    /\ LET valid == llava_thread[e] = "valid"
       IN  /\ pub' = IF ContextDue(valid) THEN Published(e, ContextMsg) ELSE pub
           /\ IF ContextRowDue(valid)
              THEN \E ok \in BOOLEAN :
                     db_log' = [db_log EXCEPT ![e] =
                                  @ \o DbCalls(<<"log_ai_context">>, <<ok>>)]
              ELSE UNCHANGED db_log
    /\ UNCHANGED vision_sync

\* lines 709-756: the fallback: when the best detection meets the gate,
\* VisionClient::analyze is called, a valid context is published and,
\* with a database, the result is logged; analyze may throw into the
\* catch of line 757
SyncVision(e) ==
    /\ IF best_confidence[e] >= ConfGate
       THEN \E r \in {"valid", "invalid", "threw"} :
              /\ vision_sync' = [vision_sync EXCEPT ![e] = r]
              /\ pub' = IF r # "threw" /\ ContextDue(r = "valid")
                        THEN Published(e, ContextMsg) ELSE pub
              /\ IF r # "threw" /\ SyncContextRowDue(r = "valid")
                 THEN \E ok \in BOOLEAN :
                        db_log' = [db_log EXCEPT ![e] =
                                     @ \o DbCalls(<<"log_ai_context">>, <<ok>>)]
                 ELSE UNCHANGED db_log
       ELSE UNCHANGED <<vision_sync, pub, db_log>>
    /\ UNCHANGED llava_thread

\* lines 671-759
TaskVision(e) ==
    /\ pc[e] = "vision"
    /\ IF llava_thread[e] # "none"
       THEN JoinVision(e)
       ELSE IF SyncDue(e, snapshot_path[e])
            THEN SyncVision(e)
            ELSE UNCHANGED <<llava_thread, pub, db_log, vision_sync>>
    /\ pc' = [pc EXCEPT ![e] = "cleanup"]
    /\ UNCHANGED <<my_event, pool_frames, width, frames_written, rec_stop,
                   elapsed, result>>
    /\ UNCHANGED <<frames_since_detection, inference_count, all_detections,
                   early_notification_sent, best_confidence, snapshot_path>>
    /\ UNCHANGED <<mqttVars, mgrVars, evVars, stopVars, cbVars, buffer, envVars>>

\* event_manager.cpp:765-766: the cleanup erases the camera's entry
CleanupErases(cam) == EventActive(cam) /\ ~running[active_events_[cam]]

\* lines 762-772, under events_mutex_
TaskCleanup(e) ==
    /\ pc[e] = "cleanup"
    /\ LET cam == evCam[e]
           it  == active_events_[cam]
       IN  IF CleanupErases(cam)
           THEN /\ orphaned_threads_' =
                     IF thread[it] = "event"
                     THEN orphaned_threads_ \cup {it} ELSE orphaned_threads_
                /\ thread' = [thread EXCEPT ![it] =
                                IF thread[it] = "event" THEN "orphan" ELSE thread[it]]
                /\ active_events_' = [active_events_ EXCEPT ![cam] = NoEvent]
                /\ freed' = [freed EXCEPT ![it] = TRUE]
           ELSE UNCHANGED <<orphaned_threads_, thread, active_events_, freed>>
    /\ Return(e, "completed")
    /\ UNCHANGED <<running_, nextId, starts, stops>>
    /\ UNCHANGED <<evCam, evPostRoll, stop_requested, running>>
    /\ UNCHANGED <<my_event, pool_frames, width, frames_written, rec_stop,
                   elapsed, pub>>
    /\ UNCHANGED <<mqttVars, stopVars, cbVars, buffer, detVars, envVars>>

\* line 131: event_ptr->running = false, then the thread ends.  A write to
\* a record that is already destroyed changes nothing this model holds.
TaskWrapper(e) ==
    /\ pc[e] = "wrapper"
    /\ running' = [running EXCEPT ![e] = IF freed[e] THEN running[e] ELSE FALSE]
    /\ pc' = [pc EXCEPT ![e] = "done"]
    /\ UNCHANGED <<evCam, evPostRoll, stop_requested, freed, thread>>
    /\ UNCHANGED <<my_event, pool_frames, width, frames_written, rec_stop,
                   elapsed, result, pub>>
    /\ UNCHANGED <<mqttVars, mgrVars, stopVars, cbVars, buffer, detVars, envVars>>

----------------------------------------------------------------------------
(* FramePool.  A frame is in the free list, or popped by an acquire() that *)
(* has not yet wrapped it ("acquiring"), or held through shared_ptr        *)
(* handles ("held", refs of them), or in the deleter of its last handle,   *)
(* which has not yet pushed it back ("recycling").                         *)

Null == 0

\* FramePool::available
Available == Len(free_list_)

\* a - b in size_t: a negative difference wraps around
SizeSub(a, b) == IF a >= b THEN a - b ELSE SizeMax - (b - a) + 1

\* FramePool::in_use: capacity_ - free_list_.size()
InUse == SizeSub(PoolCap, Len(free_list_))

\* an acquire() that never finds the pool exhausted
Exhausted_Never(fl) == FALSE

\* acquire(), line 47: free_list_.empty()
Exhausted(fl) == fl = <<>>

\* acquire(), line 48: free_list_.front(); undefined on an empty queue,
\* where it may yield any frame
Front(fl) == IF fl = <<>> THEN Frames ELSE {Head(fl)}

\* an acquire() that takes the front frame and leaves it in the list
Pop_Forgotten(fl) == fl

\* acquire(), line 49: free_list_.pop(); undefined on an empty queue,
\* which is left empty here
Pop(fl) == IF fl = <<>> THEN fl ELSE Tail(fl)

\* acquire(), lines 46-50, under mutex_
AcquireLocked ==
    /\ IF Exhausted(free_list_)
       THEN /\ acquired' = [call |-> 1 - acquired.call, ret |-> Null]
            /\ UNCHANGED <<free_list_, fstate>>
       ELSE \E f \in Front(free_list_) :
            /\ acquired' = [call |-> 1 - acquired.call, ret |-> -1]
            /\ free_list_' = Pop(free_list_)
            /\ fstate' = [fstate EXCEPT ![f] = "acquiring"]
    /\ UNCHANGED <<refs, frame_number>>
    /\ UNCHANGED <<orchVars, buffer, cfgVars, mainVars, fnVars, handleVars, ringVars, capVars>>

\* acquire(), lines 53-57: the frame is returned in a shared_ptr whose
\* deleter recycles it
AcquireWrap(f) ==
    /\ fstate[f] = "acquiring"
    /\ fstate' = [fstate EXCEPT ![f] = "held"]
    /\ refs' = [refs EXCEPT ![f] = 1]
    /\ acquired' = [acquired EXCEPT !.ret = f]
    /\ UNCHANGED <<free_list_, frame_number>>
    /\ UNCHANGED <<orchVars, buffer, cfgVars, mainVars, fnVars, handleVars, ringVars, capVars>>

\* a holder copies its handle (the ring buffer, a snapshot, a reader)
CopyHandle(f) ==
    /\ fstate[f] = "held"
    /\ refs[f] < MaxRefs
    /\ refs' = [refs EXCEPT ![f] = refs[f] + 1]
    /\ UNCHANGED <<free_list_, fstate, frame_number, acquired>>
    /\ UNCHANGED <<orchVars, buffer, cfgVars, mainVars, fnVars, handleVars, ringVars, capVars>>

\* the capture thread stamps a frame it holds
Stamp(f, n) ==
    /\ fstate[f] = "held"
    /\ frame_number' = [frame_number EXCEPT ![f] = n]
    /\ UNCHANGED <<free_list_, fstate, refs, acquired>>
    /\ UNCHANGED <<orchVars, buffer, cfgVars, mainVars, fnVars, handleVars, ringVars, capVars>>

\* a deleter that runs at the drop of any handle
DeleterRuns_AnyDrop(n) == TRUE

\* the deleter of acquire(), lines 55-57, runs when the use count of the
\* shared_ptr reaches 0
DeleterRuns(n) == n = 0

\* a handle is dropped; the last one calls recycle(), whose line 74 zeroes
\* the frame number before the mutex is taken
DropHandle(f) ==
    /\ fstate[f] = "held"
    /\ refs[f] > 0
    /\ refs' = [refs EXCEPT ![f] = refs[f] - 1]
    /\ IF DeleterRuns(refs[f] - 1)
       THEN /\ fstate' = [fstate EXCEPT ![f] = "recycling"]
            /\ frame_number' = [frame_number EXCEPT ![f] = 0]
       ELSE UNCHANGED <<fstate, frame_number>>
    /\ UNCHANGED <<free_list_, acquired>>
    /\ UNCHANGED <<orchVars, buffer, cfgVars, mainVars, fnVars, handleVars, ringVars, capVars>>

\* a recycle() that loses the frame it was given
Recycled_Lost(fl, f) == fl

\* recycle(), line 76: free_list_.push(std::move(frame))
Recycled(fl, f) == Append(fl, f)

\* recycle(), lines 75-76, under mutex_
RecycleLocked(f) ==
    /\ fstate[f] = "recycling"
    /\ free_list_' = Recycled(free_list_, f)
    /\ fstate' = [fstate EXCEPT ![f] = "free"]
    /\ UNCHANGED <<refs, frame_number, acquired>>
    /\ UNCHANGED <<orchVars, buffer, cfgVars, mainVars, fnVars, handleVars, ringVars, capVars>>

----------------------------------------------------------------------------
(* CameraBuffer under its writer and concurrent readers.  The capture      *)
(* thread of one camera stamps each frame with ++frame_counter and pushes  *)
(* it; in this part of the model a frame is its frame_number.  push() and  *)
(* clear() hold the unique_lock of mutex_, the readers a shared_lock.      *)

\* the camera whose capture thread and ring buffer are followed
CapCam == "cam1"

\* push(), lines 91-92: the lock is taken and the frame written to its slot
RingPushBegin ==
    /\ ~ring_locked
    /\ frame_counter < MaxPushes
    /\ frame_counter' = frame_counter + 1
    /\ buffer' = [buffer EXCEPT ![CapCam] = PushWrite(buffer[CapCam], frame_counter + 1)]
    /\ ring_locked' = TRUE
    /\ UNCHANGED <<pushed, snapshot, prev_snapshot>>
    /\ UNCHANGED <<capPc, stream_open, backoff_seconds, consecutive_failures_, cap_frame, waited, reader_frames>>
    /\ UNCHANGED <<orchVars, poolVars, cfgVars, mainVars, fnVars, handleVars>>

\* push(), lines 93-95: head_ and count_ are updated and the lock released
RingPushEnd ==
    /\ ring_locked
    /\ buffer' = [buffer EXCEPT ![CapCam] = PushAdvance(buffer[CapCam])]
    /\ pushed' = Append(pushed, frame_counter)
    /\ ring_locked' = FALSE
    /\ UNCHANGED <<snapshot, prev_snapshot>>
    /\ UNCHANGED <<orchVars, poolVars, cfgVars, mainVars, fnVars, handleVars, capVars>>

\* CameraBuffer::clear, under the unique_lock
RingClear ==
    /\ ~ring_locked
    /\ buffer' = [buffer EXCEPT ![CapCam] = Clear(buffer[CapCam])]
    /\ pushed' = <<>>
    /\ UNCHANGED <<ring_locked, snapshot, prev_snapshot>>
    /\ UNCHANGED <<orchVars, poolVars, cfgVars, mainVars, fnVars, handleVars, capVars>>

\* a reader that never waits for the writer
ReaderBlocked_Never == FALSE

\* getBuffer(), line 107: the shared_lock is not granted while the writer
\* holds the unique_lock
ReaderBlocked == ring_locked

\* CameraBuffer::getBuffer called by a reader
RingGetBuffer ==
    /\ ~ReaderBlocked
    /\ prev_snapshot' = snapshot
    /\ snapshot' = GetBuffer(buffer[CapCam])
    /\ UNCHANGED <<ring_locked, pushed, buffer>>
    /\ UNCHANGED <<orchVars, poolVars, cfgVars, mainVars, fnVars, handleVars, capVars>>

----------------------------------------------------------------------------
(* RtspCapture::captureLoop of one camera, with the frame pool and the     *)
(* ring buffer of the camera, and a reader that holds what getBuffer()     *)
(* returned.  In this part of the model the ring holds pooled frames.      *)

\* captureLoop, line 430, and the cap of line 452
BackoffStart == 5
BackoffMax == 60

\* closeStream: the decoder and the stream are torn down
CloseStream ==
    /\ stream_open' = FALSE
    /\ waited' = FALSE

\* lines 435-455: the stream is not open; openStream succeeds, or fails
\* (and closes what it had opened) and the loop goes to its back-off wait
CapConnect ==
    /\ capPc = "top"
    /\ capture_running_
    /\ ~stream_open
    /\ \/ /\ stream_open' = TRUE
          /\ consecutive_failures_' = 0
          /\ backoff_seconds' = BackoffStart
          /\ capPc' = "read"
          /\ UNCHANGED waited
       \/ /\ consecutive_failures_ < MaxFailures
          /\ CloseStream
          /\ consecutive_failures_' = consecutive_failures_ + 1
          /\ capPc' = "backoff"
          /\ UNCHANGED backoff_seconds
    /\ UNCHANGED <<frame_counter, cap_frame, reader_frames>>
    /\ UNCHANGED <<orchVars, buffer, poolVars, cfgVars, mainVars, fnVars, handleVars, ringVars>>

\* a back-off interval that doubles without a cap
NextBackoff_Uncapped(seconds) == seconds * 2

\* line 453: std::min(backoff_seconds * 2, 60)
NextBackoff(seconds) == Min(seconds * 2, BackoffMax)

\* lines 448-453: the wait of backoff_seconds, then the interval doubles
CapBackoff ==
    /\ capPc = "backoff"
    /\ waited' = TRUE
    /\ backoff_seconds' = NextBackoff(backoff_seconds)
    /\ capPc' = "top"
    /\ UNCHANGED <<stream_open, consecutive_failures_, frame_counter, cap_frame, reader_frames>>
    /\ UNCHANGED <<orchVars, buffer, poolVars, cfgVars, mainVars, fnVars, handleVars, ringVars>>

\* line 435 with the stream open: the loop goes on to read
CapTop ==
    /\ capPc = "top"
    /\ capture_running_
    /\ stream_open
    /\ capPc' = "read"
    /\ UNCHANGED <<stream_open, backoff_seconds, consecutive_failures_, frame_counter, cap_frame,
                   waited, reader_frames>>
    /\ UNCHANGED <<orchVars, buffer, poolVars, cfgVars, mainVars, fnVars, handleVars, ringVars>>

\* lines 458-480: av_read_frame fails (read error, end of stream): the
\* stream is closed and the loop continues; or the packet is not video, or
\* the decoder refuses it: the loop continues; or the packet is decoded
CapRead ==
    /\ capPc = "read"
    /\ \/ /\ CloseStream
          /\ capPc' = "top"
       \/ /\ capPc' = "top"
          /\ UNCHANGED <<stream_open, waited>>
       \/ /\ capPc' = "decode"
          /\ UNCHANGED <<stream_open, waited>>
    /\ UNCHANGED <<backoff_seconds, consecutive_failures_, frame_counter, cap_frame, reader_frames>>
    /\ UNCHANGED <<orchVars, buffer, poolVars, cfgVars, mainVars, fnVars, handleVars, ringVars>>

\* a capture that goes to its back-off wait when the pool is exhausted
AfterDrop_BackOff == "backoff"

\* line 508: continue, to the next avcodec_receive_frame
AfterDrop == "decode"

\* lines 482-509: avcodec_receive_frame has no further frame and the loop
\* goes back to its head; or it has one and a pool frame is acquired for
\* it, which fails on an exhausted pool: the decoded frame is dropped
CapDecode ==
    /\ capPc = "decode"
    /\ \/ /\ capPc' = "top"
          /\ UNCHANGED <<cap_frame, free_list_, fstate, refs, acquired>>
       \/ /\ frame_counter < MaxCaptured
          /\ IF Exhausted(free_list_)
             THEN /\ acquired' = [call |-> 1 - acquired.call, ret |-> Null]
                  /\ capPc' = AfterDrop
                  /\ UNCHANGED <<cap_frame, free_list_, fstate, refs>>
             ELSE \E f \in Front(free_list_) :
                  /\ acquired' = [call |-> 1 - acquired.call, ret |-> f]
                  /\ free_list_' = Pop(free_list_)
                  /\ fstate' = [fstate EXCEPT ![f] = "held"]
                  /\ refs' = [refs EXCEPT ![f] = 1]
                  /\ cap_frame' = f
                  /\ capPc' = "deliver"
    /\ UNCHANGED <<stream_open, backoff_seconds, consecutive_failures_, frame_counter, waited, reader_frames,
                   frame_number>>
    /\ UNCHANGED <<orchVars, buffer, cfgVars, mainVars, fnVars, handleVars, ringVars>>

\* the handles of the frames in D are dropped: a frame whose last handle
\* goes is recycled by the dropping thread (frame_number zeroed, frame
\* pushed to the free list)
RECURSIVE AppendAll(_, _)
AppendAll(fl, D) ==
    IF D = {} THEN fl
    ELSE LET f == CHOOSE x \in D : \A y \in D : x <= y
         IN  AppendAll(Recycled(fl, f), D \ {f})

DropHandles(D, stamped) ==
    LET last == {f \in D : DeleterRuns(refs[f] - 1)}
    IN  /\ refs' = [f \in Frames |-> IF f \in D THEN refs[f] - 1 ELSE refs[f]]
        /\ fstate' = [f \in Frames |-> IF f \in last THEN "free" ELSE fstate[f]]
        /\ frame_number' = [f \in Frames |-> IF f \in last THEN 0 ELSE stamped[f]]
        /\ free_list_' = AppendAll(free_list_, last)

\* lines 511-528 and buffer_service.cpp:30-32: the frame is stamped with
\* ++frame_counter and moved into the ring buffer, whose overwritten slot
\* drops the handle of the oldest frame
CapDeliver ==
    /\ capPc = "deliver"
    /\ frame_counter' = frame_counter + 1
    /\ buffer' = [buffer EXCEPT ![CapCam] = Push(buffer[CapCam], cap_frame)]
    /\ LET b == buffer[CapCam]
           evicted == IF b.count_ = b.capacity_ THEN {b.buffer_[b.head_]} ELSE {}
       IN  DropHandles(evicted, [frame_number EXCEPT ![cap_frame] = frame_counter + 1])
    /\ cap_frame' = Null
    /\ capPc' = "decode"
    /\ UNCHANGED <<stream_open, backoff_seconds, consecutive_failures_, waited, reader_frames, acquired>>
    /\ UNCHANGED <<orchVars, cfgVars, mainVars, fnVars, handleVars, ringVars>>

\* a reader calls getBuffer() and keeps the handles
ReaderGetBuffer ==
    /\ reader_frames = <<>>
    /\ buffer[CapCam].count_ > 0
    /\ reader_frames' = GetBuffer(buffer[CapCam])
    /\ refs' = [f \in Frames |->
                  IF \E i \in 1 .. buffer[CapCam].count_ :
                        GetBuffer(buffer[CapCam])[i] = f
                  THEN refs[f] + 1 ELSE refs[f]]
    /\ UNCHANGED <<free_list_, fstate, frame_number, acquired>>
    /\ UNCHANGED <<capPc, stream_open, backoff_seconds, consecutive_failures_, frame_counter, cap_frame, waited>>
    /\ UNCHANGED <<orchVars, buffer, cfgVars, mainVars, fnVars, handleVars, ringVars>>

\* the reader lets its handles go
ReaderRelease ==
    /\ reader_frames # <<>>
    /\ reader_frames' = <<>>
    /\ DropHandles({reader_frames[i] : i \in 1 .. Len(reader_frames)}, frame_number)
    /\ UNCHANGED acquired
    /\ UNCHANGED <<capPc, stream_open, backoff_seconds, consecutive_failures_, frame_counter, cap_frame, waited>>
    /\ UNCHANGED <<orchVars, buffer, cfgVars, mainVars, fnVars, handleVars, ringVars>>

----------------------------------------------------------------------------
(* MqttClient::topicMatches.  A string is a sequence of characters.        *)

PatternChars == {"a", "/", "+", "#"}
TopicChars == {"a", "b", "/"}

\* the strings of one to n characters
Strings(chars, n) == UNION {[1 .. k -> chars] : k \in 1 .. n}

\* the lambda split, lines 162-170: std::getline with the delimiter '/';
\* a segment is pushed at each delimiter, and at the end of the string when
\* characters were read since the last delimiter
RECURSIVE SplitFrom(_, _)
SplitFrom(s, part) ==
    IF s = <<>> THEN (IF part = <<>> THEN <<>> ELSE <<part>>)
    ELSE IF Head(s) = "/" THEN <<part>> \o SplitFrom(Tail(s), <<>>)
    ELSE SplitFrom(Tail(s), Append(part, Head(s)))

Split(s) == SplitFrom(s, <<>>)

\* the loop of lines 175-190 from the positions pi and ti (counted from 1),
\* and the return of line 192
RECURSIVE MatchFrom(_, _, _, _)
MatchFrom(pat_parts, top_parts, pi, ti) ==
    IF ti > Len(top_parts) THEN pi = Len(pat_parts) + 1
    ELSE IF pi > Len(pat_parts) THEN FALSE
    ELSE IF pat_parts[pi] = <<"#">> THEN TRUE
    ELSE IF pat_parts[pi] = <<"+">> THEN MatchFrom(pat_parts, top_parts, pi + 1, ti + 1)
    ELSE IF pat_parts[pi] # top_parts[ti] THEN FALSE
    ELSE MatchFrom(pat_parts, top_parts, pi + 1, ti + 1)

\* MqttClient::topicMatches(pattern, topic)
TopicMatches(pattern, topic) == MatchFrom(Split(pattern), Split(topic), 1, 1)

\* a call of topicMatches
TopicMatchesCall ==
    /\ args.f = "topicMatches"
    /\ ret = NoCall
    /\ ret' = [f |-> "topicMatches", value |-> TopicMatches(args.pattern, args.topic)]
    /\ UNCHANGED <<args, orchVars, buffer, poolVars, cfgVars, mainVars, ringVars, capVars, handleVars>>

----------------------------------------------------------------------------
(* processEvent, steps 12 to 15: the detections of an event are reduced to  *)
(* one per class for the final result and for the database.  A confidence  *)
(* is a number of ten-thousandths.                                         *)

Classes == {"person", "car"}
Confidences == {4994, 4996, 9000}
Detections == [class_name : Classes, confidence : Confidences]

\* the sequences over S of at most n elements
SeqsUpTo(S, n) == UNION {[1 .. k -> S] : k \in 0 .. n}

\* a reduction that keeps the last detection of a class
Better_Latest(d, kept) == TRUE

\* line 543: d.confidence > it2->second.confidence
Better(d, kept) == d.confidence > kept.confidence

\* lines 540-546: unique_dets, a map from the class name to one detection
RECURSIVE UniqueDets(_, _)
UniqueDets(all, unique_dets) ==
    IF all = <<>> THEN unique_dets
    ELSE LET d == Head(all)
             found == d.class_name \in DOMAIN unique_dets
         IN  UniqueDets(Tail(all),
                        IF ~found \/ Better(d, unique_dets[d.class_name])
                        THEN (d.class_name :> d) @@ unique_dets
                        ELSE unique_dets)

\* lines 549-552: class_counts[d.class_name]++
RECURSIVE ClassCounts(_, _)
ClassCounts(all, class_counts) ==
    IF all = <<>> THEN class_counts
    ELSE LET cls == Head(all).class_name
         IN  ClassCounts(Tail(all),
                         (cls :> (IF cls \in DOMAIN class_counts
                                  THEN class_counts[cls] + 1 ELSE 1)) @@ class_counts)

\* line 587: std::round(d.confidence * 1000) / 1000, in thousandths
Round3(confidence) == (confidence + 5) \div 10

\* lines 583-592: the detections array of the final result
DetsJson(unique_dets) ==
    {[class |-> unique_dets[cls].class_name,
      confidence |-> Round3(unique_dets[cls].confidence)] : cls \in DOMAIN unique_dets}

\* lines 656-659: the rows handed to EventLogger::log_detections
DetRecords(unique_dets) ==
    {[class_name |-> unique_dets[cls].class_name,
      confidence |-> unique_dets[cls].confidence] : cls \in DOMAIN unique_dets}

\* the empty map
EmptyMap == [cls \in {} |-> 0]

\* lines 540-666 on the detections of one event
FinalResultCall ==
    /\ args.f = "final_result"
    /\ ret = NoCall
    /\ LET unique_dets == UniqueDets(args.all_detections, EmptyMap)
       IN  ret' = [f |-> "final_result",
                   detections |-> DetsJson(unique_dets),
                   detection_count |-> Len(args.all_detections),
                   class_counts |-> ClassCounts(args.all_detections, EmptyMap),
                   det_records |-> DetRecords(unique_dets)]
    /\ UNCHANGED <<args, orchVars, buffer, poolVars, cfgVars, mainVars, ringVars, capVars, handleVars>>

----------------------------------------------------------------------------
(* DetectionEngine::iou and DetectionEngine::nms.  A confidence and an IoU *)
(* threshold are numbers of hundredths.                                    *)

ClassIds == {0, 1}
NmsConfidences == {70, 90}
IouThresholds == {25, 45}
Boxes == {[x1 |-> 0, y1 |-> 0, x2 |-> 10, y2 |-> 10],
          [x1 |-> 1, y1 |-> 1, x2 |-> 11, y2 |-> 11],
          [x1 |-> 3, y1 |-> 3, x2 |-> 13, y2 |-> 13],
          [x1 |-> 20, y1 |-> 20, x2 |-> 30, y2 |-> 30]}
NmsDets == [class_id : ClassIds, confidence : NmsConfidences, box : Boxes]

Max2(a, b) == IF a > b THEN a ELSE b

\* iou(), lines 869-885, compared with a threshold: the intersection and
\* the union of the two boxes; an empty union gives an IoU of 0
IouAbove(a, b, iou_threshold) ==
    LET inter_w == Max2(0, Min(a.x2, b.x2) - Max2(a.x1, b.x1))
        inter_h == Max2(0, Min(a.y2, b.y2) - Max2(a.y1, b.y1))
        inter_area == inter_w * inter_h
        area_a == (a.x2 - a.x1) * (a.y2 - a.y1)
        area_b == (b.x2 - b.x1) * (b.y2 - b.y1)
        union_area == area_a + area_b - inter_area
    IN  IF union_area <= 0 THEN 0 > iou_threshold
        ELSE inter_area * 100 > iou_threshold * union_area

\* a suppression that takes all boxes for one class
GroupKey_Global(d) == 0

\* line 894: class_indices[dets[i].class_id]
GroupKey(d) == d.class_id

\* lines 892-895: the indices of the boxes of one group
ClassIndices(dets, cls) == {i \in 1 .. Len(dets) : GroupKey(dets[i]) = cls}

\* lines 901-904: std::sort by descending confidence leaves boxes of equal
\* confidence in any order
SortedOrders(dets, I) ==
    {s \in [1 .. Cardinality(I) -> I] :
        /\ \A a, b \in 1 .. Cardinality(I) : a # b => s[a] # s[b]
        /\ \A a, b \in 1 .. Cardinality(I) :
              a < b => dets[s[a]].confidence >= dets[s[b]].confidence}

\* lines 906-918: the greedy pass over the sorted indices of one class,
\* from position i on
RECURSIVE NmsClass(_, _, _, _, _, _)
NmsClass(dets, indices, iou_threshold, i, suppressed, keep) ==
    IF i > Len(indices) THEN keep
    ELSE IF i \in suppressed
         THEN NmsClass(dets, indices, iou_threshold, i + 1, suppressed, keep)
         ELSE NmsClass(dets, indices, iou_threshold, i + 1,
                       suppressed \cup
                         {j \in i + 1 .. Len(indices) :
                            /\ j \notin suppressed
                            /\ IouAbove(dets[indices[i]].box, dets[indices[j]].box,
                                        iou_threshold)},
                       keep \cup {indices[i]})

\* DetectionEngine::nms(dets, iou_threshold): the kept indices, for the
\* sorted order order[cls] of the boxes of each class
Nms(dets, iou_threshold, order) ==
    UNION {NmsClass(dets, order[cls], iou_threshold, 1, {}, {}) : cls \in DOMAIN order}

\* the orders in which the sort may leave the classes of dets
NmsOrders(dets) ==
    LET keys == {GroupKey(dets[i]) : i \in 1 .. Len(dets)}
        all == UNION {SortedOrders(dets, ClassIndices(dets, cls)) : cls \in keys}
    IN  {order \in [keys -> all] :
            \A cls \in keys : order[cls] \in SortedOrders(dets, ClassIndices(dets, cls))}

\* a call of nms
NmsCall ==
    /\ args.f = "nms"
    /\ ret = NoCall
    /\ \E order \in NmsOrders(args.dets) :
          ret' = [f |-> "nms", keep |-> Nms(args.dets, args.iou_threshold, order)]
    /\ UNCHANGED <<args, orchVars, buffer, poolVars, cfgVars, mainVars, ringVars, capVars, handleVars>>

----------------------------------------------------------------------------
(* DetectionEngine::postprocess on an output tensor of a model of two      *)
(* classes.  A score and conf_threshold are numbers of hundredths; the     *)
(* letterbox scale is the fraction scale.num / scale.den.                  *)

\* initClassNames, lines 710-720: one name for each class of the model
class_names_ == [c \in ClassIds |-> IF c = 0 THEN "person" ELSE "car"]

Scores == {0, 30, 90}
\* (cx, cy, w, h) in the space of the model input
Geometries == {[cx |-> 6, cy |-> 6, w |-> 4, h |-> 4],
               [cx |-> 3, cy |-> 3, w |-> 6, h |-> 6],
               [cx |-> 6, cy |-> 6, w |-> 0, h |-> 4]}
Candidates == [geo : Geometries, score : [ClassIds -> Scores]]
ConfThresholds == {0, 50}
FilterClasses == {{}, {"person"}}

\* lines 800-809: the class of the highest score above 0, from class c on
RECURSIVE BestClass(_, _, _)
BestClass(score, c, best) ==
    IF c \notin ClassIds THEN best
    ELSE BestClass(score, c + 1,
                   IF score[c] > best.best_score
                   THEN [best_class |-> c, best_score |-> score[c]] ELSE best)

\* lines 839-841: the name of the class, "unknown" without one
ClassName(best_class) ==
    IF best_class \in DOMAIN class_names_ THEN class_names_[best_class] ELSE "unknown"

\* lines 813-816: the class filter lets the candidate through
PassesFilter(best_class, filter_set) ==
    ~(filter_set # {} /\ best_class \in DOMAIN class_names_
        /\ class_names_[best_class] \notin filter_set)

\* lines 818-828 for one edge: centre less (sign = -1) or plus (sign = 1)
\* half the extent, less the padding, divided by the scale
Unletterbox(centre, extent, sign, pad, scale) ==
    ((2 * centre + sign * extent - 2 * pad) * scale.den) \div (2 * scale.num)

\* lines 830-834
Clamp(x, orig) == Max2(0, Min(x, orig))

\* lines 818-834: the box of a candidate in the original image
BoxOf(geo, a) ==
    [x1 |-> Clamp(Unletterbox(geo.cx, geo.w, -1, a.pad_x, a.scale), a.orig_width),
     y1 |-> Clamp(Unletterbox(geo.cy, geo.h, -1, a.pad_y, a.scale), a.orig_height),
     x2 |-> Clamp(Unletterbox(geo.cx, geo.w, 1, a.pad_x, a.scale), a.orig_width),
     y2 |-> Clamp(Unletterbox(geo.cy, geo.h, 1, a.pad_y, a.scale), a.orig_height)]

\* lines 793-849: the detections of the candidates, in their order
RECURSIVE CandidateDets(_, _)
CandidateDets(output, a) ==
    IF output = <<>> THEN <<>>
    ELSE LET cand == Head(output)
             best == BestClass(cand.score, 0, [best_class |-> -1, best_score |-> 0])
             box  == BoxOf(cand.geo, a)
             skip == \/ best.best_score < a.conf_threshold
                     \/ ~PassesFilter(best.best_class, a.filter_classes)
                     \/ box.x2 - box.x1 < 1
                     \/ box.y2 - box.y1 < 1
         IN  (IF skip THEN <<>>
              ELSE <<[class_id |-> best.best_class,
                      class_name |-> ClassName(best.best_class),
                      confidence |-> best.best_score,
                      box |-> box]>>)
             \o CandidateDets(Tail(output), a)

\* a call of postprocess: lines 851-864, the suppression and the sort by
\* descending confidence, which leaves equal confidences in any order
PostprocessCall ==
    /\ args.f = "postprocess"
    /\ ret = NoCall
    /\ LET detections == CandidateDets(args.output, args)
       IN  \E order \in NmsOrders(detections) :
           \E sorted \in SortedOrders(detections, Nms(detections, args.iou_threshold, order)) :
              ret' = [f |-> "postprocess",
                      result |-> [i \in 1 .. Len(sorted) |-> detections[sorted[i]]]]
    /\ UNCHANGED <<args, orchVars, buffer, poolVars, cfgVars, mainVars, ringVars, capVars, handleVars>>

----------------------------------------------------------------------------
(* VisionClient::analyze.  A text is a sequence of characters, "TAB"       *)
(* standing for a whitespace character other than the space.               *)

TextChars == {"x", " ", "TAB"}
\* line 111: " \t\n\r"
Whitespace == {" ", "TAB"}

\* std::string::npos
Npos == 0

\* find_first_not_of and find_last_not_of: a position from 1, or Npos
FindFirstNotOf(s, chars) ==
    LET at == {i \in 1 .. Len(s) : s[i] \notin chars}
    IN  IF at = {} THEN Npos ELSE CHOOSE i \in at : \A j \in at : i <= j

FindLastNotOf(s, chars) ==
    LET at == {i \in 1 .. Len(s) : s[i] \notin chars}
    IN  IF at = {} THEN Npos ELSE CHOOSE i \in at : \A j \in at : j <= i

\* lines 111-118: the text is cut at its first and at its last character
\* that is not whitespace, when it has one
TrimContext(context) ==
    LET ltrim == FindFirstNotOf(context, Whitespace)
        left  == IF ltrim # Npos THEN SubSeq(context, ltrim, Len(context)) ELSE context
        rtrim == FindLastNotOf(left, Whitespace)
    IN  IF rtrim # Npos THEN SubSeq(left, 1, rtrim) ELSE left

\* lines 120-122
IsValid(context) ==
    Len(context) >= MinContextLen /\ \E i \in 1 .. Len(context) : context[i] = " "

\* a call of analyze: the snapshot cannot be opened or is empty (lines
\* 33-46), the request fails or is answered with another status than 200
\* (87-103), the answer is not the JSON expected (125-128): the result is
\* returned as constructed; otherwise the response is trimmed and validated
AnalyzeCall ==
    /\ args.f = "analyze"
    /\ ret = NoCall
    /\ ret' = IF args.snapshot # "readable"
                 \/ args.request \in {"curl_error", "http_error", "bad_json"}
              THEN [f |-> "analyze", context |-> <<>>, is_valid |-> FALSE]
              ELSE [f |-> "analyze", context |-> TrimContext(args.response),
                    is_valid |-> IsValid(TrimContext(args.response))]
    /\ UNCHANGED <<args, orchVars, buffer, poolVars, cfgVars, mainVars, ringVars, capVars, handleVars>>

----------------------------------------------------------------------------
(* processEvent: the frame of one iteration of the live loop or of the     *)
(* post-roll loop, on its way to EventRecorder::writeFrame                 *)

\* what getLatestFrame returns on an empty ring buffer
NullFrame == [width |-> 0, height |-> 0]

FrameDimensions == [width : 1 .. MaxFrameWidth, height : 1 .. MaxFrameHeight]

\* line 299: the live loop skips the frame
LiveSkips(frame, rec_width) == frame = NullFrame \/ frame.width # rec_width

\* line 420: the post-roll loop writes the frame
PostRollWrites(frame, rec_width) == frame # NullFrame /\ frame.width = rec_width

\* lines 298-304 and 419-421: the frame is handed to writeFrame, which
\* takes it as one of the recorder's dimensions (event_recorder.cpp
\* 160-172)
LoopFrameCall ==
    /\ args.f = "loop_frame"
    /\ ret = NoCall
    /\ ret' = [f |-> "loop_frame",
               written |-> IF args.loop = "live"
                           THEN ~LiveSkips(args.frame, args.width)
                           ELSE PostRollWrites(args.frame, args.width)]
    /\ UNCHANGED <<args, orchVars, buffer, poolVars, cfgVars, mainVars, ringVars, capVars, handleVars>>

----------------------------------------------------------------------------
(* processEvent and the pooled frames: the event thread of the camera of   *)
(* the capture thread above, step by step from its pre-roll drain on, with *)
(* the handles it takes from the ring buffer and lets go.                  *)

\* the frames of the ring buffer
InRing(b) == {GetBuffer(b)[i] : i \in 1 .. b.count_}

\* a handle is taken of each frame of D
TakeHandles(D) ==
    /\ refs' = [f \in Frames |-> IF f \in D THEN refs[f] + 1 ELSE refs[f]]
    /\ UNCHANGED <<free_list_, fstate, frame_number>>

\* lines 203-205: the thread has its buffer and takes the snapshot
HGetBuffer ==
    /\ hpc = "idle"
    /\ held' = InRing(buffer[CapCam])
    /\ TakeHandles(InRing(buffer[CapCam]))
    /\ hpc' = "drain"
    /\ UNCHANGED <<preroll_frames, best_frame, acquired>>
    /\ UNCHANGED <<orchVars, buffer, cfgVars, mainVars, ringVars, capVars, fnVars>>

\* lines 206-219: a copy is made of each frame of the snapshot, and the
\* snapshot goes out of scope
HDrain ==
    /\ hpc = "drain"
    /\ preroll_frames' = Cardinality(held)
    /\ DropHandles(held, frame_number)
    /\ held' = {}
    /\ hpc' = "dims"
    /\ UNCHANGED <<best_frame, acquired>>
    /\ UNCHANGED <<orchVars, buffer, cfgVars, mainVars, ringVars, capVars, fnVars>>

\* lines 222-234: the dimensions; without a pre-roll frame the latest
\* frame is looked at and let go within the block; without any frame the
\* event is given up
HDims ==
    /\ hpc = "dims"
    /\ hpc' = IF preroll_frames = 0 /\ GetLatestFrame(buffer[CapCam]) = Null
              THEN "done" ELSE "start_recorder"
    /\ UNCHANGED <<held, preroll_frames, best_frame>>
    /\ UNCHANGED <<orchVars, buffer, poolVars, cfgVars, mainVars, ringVars, capVars, fnVars>>

\* lines 236-245: the recorder is started on the copies, or fails to
\* start; the copies are cleared
HStartRecorder ==
    /\ hpc = "start_recorder"
    /\ \E started \in BOOLEAN :
          IF started THEN hpc' = "live" /\ preroll_frames' = 0
          ELSE hpc' = "done" /\ UNCHANGED preroll_frames
    /\ UNCHANGED <<held, best_frame>>
    /\ UNCHANGED <<orchVars, buffer, poolVars, cfgVars, mainVars, ringVars, capVars, fnVars>>

\* lines 297-298 and 418-419: the condition of the loop; when it holds,
\* getLatestFrame hands out a handle of the latest frame, if there is one
HLoopTop(loop, after) ==
    /\ hpc = loop
    /\ \E goes_on \in BOOLEAN :
          IF goes_on
          THEN LET f == GetLatestFrame(buffer[CapCam])
               IN  /\ held' = IF f = Null THEN {} ELSE {f}
                   /\ TakeHandles(IF f = Null THEN {} ELSE {f})
                   /\ hpc' = loop \o "_frame"
          ELSE /\ hpc' = after
               /\ UNCHANGED <<held, poolVars>>
    /\ UNCHANGED <<preroll_frames, best_frame, acquired>>
    /\ UNCHANGED <<orchVars, buffer, cfgVars, mainVars, ringVars, capVars, fnVars>>

\* a frame.reset() that lets nothing go
ResetDrops_Nothing(frames) == {}

\* lines 408 and 510: frame.reset() lets the handle go
ResetDrops(frames) == frames

\* lines 305-327: the frame is written and, when a detection is the best
\* so far, copied by copyFrame (lines 275-285)
UseFrame ==
    \E best \in BOOLEAN : best_frame' = IF best THEN "copy" ELSE best_frame

\* lines 299-302: no frame, or a frame of other dimensions: the thread
\* sleeps 30 ms with what it holds and continues; lines 305-408
\* otherwise: the frame is used and reset before the sleep of line 409
HLiveFrame ==
    /\ hpc = "live_frame"
    /\ \E usable \in BOOLEAN :
          IF held = {} \/ ~usable
          THEN /\ hpc' = "live_retry"
               /\ UNCHANGED <<held, best_frame, poolVars>>
          ELSE /\ UseFrame
               /\ DropHandles(ResetDrops(held), frame_number)
               /\ held' = held \ ResetDrops(held)
               /\ hpc' = "live_sleep"
               /\ UNCHANGED acquired
    /\ UNCHANGED preroll_frames
    /\ UNCHANGED <<orchVars, buffer, cfgVars, mainVars, ringVars, capVars, fnVars>>

\* lines 420-510: a usable frame is used; the frame is reset in any case
\* before the sleep of line 511
HPostrollFrame ==
    /\ hpc = "postroll_frame"
    /\ \E usable \in BOOLEAN :
          IF held = {} \/ ~usable THEN UNCHANGED best_frame ELSE UseFrame
    /\ DropHandles(ResetDrops(held), frame_number)
    /\ held' = held \ ResetDrops(held)
    /\ hpc' = "postroll_sleep"
    /\ UNCHANGED <<preroll_frames, acquired>>
    /\ UNCHANGED <<orchVars, buffer, cfgVars, mainVars, ringVars, capVars, fnVars>>

\* the sleep ends and with it the iteration: frame goes out of scope
HSleepEnds(sleep, loop) ==
    /\ hpc = sleep
    /\ DropHandles(held, frame_number)
    /\ held' = {}
    /\ hpc' = loop
    /\ UNCHANGED <<preroll_frames, best_frame, acquired>>
    /\ UNCHANGED <<orchVars, buffer, cfgVars, mainVars, ringVars, capVars, fnVars>>

\* what follows the loops: lines 518-520, 606-649, 651-669, 671-760
AfterLoops == <<"finalize", "publish", "persist", "vision", "done">>

HAfterLoops ==
    /\ \E i \in 1 .. Len(AfterLoops) - 1 :
          hpc = AfterLoops[i] /\ hpc' = AfterLoops[i + 1]
    /\ UNCHANGED <<held, preroll_frames, best_frame>>
    /\ UNCHANGED <<orchVars, buffer, poolVars, cfgVars, mainVars, ringVars, capVars, fnVars>>

----------------------------------------------------------------------------
(* Shutdown: main after app.run() has returned, the bus thread, the event  *)
(* thread and the capture thread of one camera, and the destruction of the *)
(* BufferService with its FramePool                                        *)

\* the rest of the orchestrator's variables, for a step that sets running_
\* or connected
OrchRest == <<subscriptions_, pending_subs_, brokerSubs, active_events_,
              orphaned_threads_, nextId, starts, stops, evVars, taskVars,
              stopVars, cbVars>>

\* line 433: while (running_) fails and captureLoop returns
CapExit ==
    /\ capPc = "top"
    /\ ~capture_running_
    /\ capPc' = "exited"
    /\ UNCHANGED <<stream_open, backoff_seconds, consecutive_failures_, frame_counter,
                   cap_frame, waited, reader_frames>>
    /\ UNCHANGED <<orchVars, buffer, poolVars, cfgVars, mainVars, fnVars, handleVars, ringVars>>

\* event_manager.cpp:43: the bus callback has read running_ as true
ShutCallbackEnter ==
    /\ Delivered(TopicStart)
    /\ running_
    /\ ev_thread = "none"
    /\ mainPc \notin {"return", "exit"}
    /\ ev_thread' = "callback"
    /\ UNCHANGED <<mainPc, capture_running_, service_owners, svcPc, pool_alive>>
    /\ UNCHANGED <<orchVars, buffer, poolVars, cfgVars, ringVars, capVars, fnVars, handleVars>>

\* event_manager.cpp:109-135: onMotionStart spawns the event thread and
\* puts its record into active_events_
ShutOnMotionStart ==
    /\ ev_thread = "callback"
    /\ ev_thread' = "active"
    /\ UNCHANGED <<mainPc, capture_running_, service_owners, svcPc, pool_alive>>
    /\ UNCHANGED <<orchVars, buffer, poolVars, cfgVars, ringVars, capVars, fnVars, handleVars>>

\* event_manager.cpp:194: the event thread holds the CameraBuffer from
\* getCameraBuffer until processEvent returns
EventHoldsBuffer == hpc \notin {"idle", "done"}

\* a step of the event thread
ShutEventStep ==
    /\ ev_thread \in {"active", "joining"}
    /\ \/ HGetBuffer
       \/ HDrain
       \/ HDims
       \/ HStartRecorder
       \/ HLoopTop("live", "postroll")
       \/ HLiveFrame
       \/ HSleepEnds("live_retry", "live")
       \/ HSleepEnds("live_sleep", "live")
       \/ HLoopTop("postroll", "finalize")
       \/ HPostrollFrame
       \/ HSleepEnds("postroll_sleep", "postroll")
       \/ HAfterLoops

\* main.cpp:186: app.run() returns
MainQuit ==
    /\ mainPc = "run"
    /\ starts > 0
    /\ mainPc' = "stop"
    /\ UNCHANGED <<ev_thread, capture_running_, service_owners, svcPc, pool_alive>>
    /\ UNCHANGED <<orchVars, buffer, poolVars, cfgVars, ringVars, capVars, fnVars, handleVars>>

\* event_manager.cpp:71-95: stop() up to the end of its critical section:
\* the thread of an active event is moved to threads_to_join
MainStop(at, then) ==
    /\ mainPc = at
    /\ running_' = FALSE
    /\ ev_thread' = IF ev_thread = "active" THEN "joining" ELSE ev_thread
    /\ mainPc' = then
    /\ UNCHANGED <<capture_running_, service_owners, svcPc, pool_alive>>
    /\ UNCHANGED <<connected, status_retained, OrchRest>>
    /\ UNCHANGED <<buffer, poolVars, cfgVars, ringVars, capVars, fnVars, handleVars>>

\* event_manager.cpp:97-101: the join of each thread collected, which
\* returns when the thread has ended
MainJoin(at, then, how) ==
    /\ mainPc = at
    /\ ev_thread = "joining" => hpc = "done"
    /\ ev_thread' = IF ev_thread = "joining" THEN how ELSE ev_thread
    /\ mainPc' = then
    /\ UNCHANGED <<capture_running_, service_owners, svcPc, pool_alive>>
    /\ UNCHANGED <<orchVars, buffer, poolVars, cfgVars, ringVars, capVars, fnVars, handleVars>>

\* main.cpp:190-191 and event_recorder.cpp:297-298: stopAll() calls
\* RtspCapture::stop, which clears running_
MainStopCaptures ==
    /\ mainPc = "stop_captures"
    /\ capture_running_' = FALSE
    /\ mainPc' = "join_capture"
    /\ UNCHANGED <<ev_thread, service_owners, svcPc, pool_alive>>
    /\ UNCHANGED <<orchVars, buffer, poolVars, cfgVars, ringVars, capVars, fnVars, handleVars>>

\* event_recorder.cpp:299-302: the capture thread is joined and the
\* stream closed
MainJoinCapture ==
    /\ mainPc = "join_capture"
    /\ capPc = "exited"
    /\ CloseStream
    /\ mainPc' = "mqtt_off"
    /\ UNCHANGED <<ev_thread, capture_running_, service_owners, svcPc, pool_alive>>
    /\ UNCHANGED <<capPc, backoff_seconds, consecutive_failures_, frame_counter, cap_frame,
                   reader_frames>>
    /\ UNCHANGED <<orchVars, buffer, poolVars, cfgVars, ringVars, fnVars, handleVars>>

\* main.cpp:194-197: the offline status and the disconnect, after which
\* the bus thread delivers no message
MainMqttOff ==
    /\ mainPc = "mqtt_off"
    /\ ev_thread # "callback"
    /\ connected' = FALSE
    /\ status_retained' = IF connected THEN "offline" ELSE status_retained
    /\ mainPc' = "reset_manager"
    /\ UNCHANGED <<ev_thread, capture_running_, service_owners, svcPc, pool_alive>>
    /\ UNCHANGED <<running_, OrchRest>>
    /\ UNCHANGED <<buffer, poolVars, cfgVars, ringVars, capVars, fnVars, handleVars>>

\* a holder of the BufferService lets go: the last one destroys it
Release(owner) ==
    /\ service_owners' = service_owners \ {owner}
    /\ svcPc' = IF service_owners \ {owner} = {} THEN 1 ELSE svcPc

\* main.cpp:199 and event_manager.cpp:28-30: after the stop() of its
\* destructor the EventManager is gone, and its buffer_service_ with it
MainManagerGone ==
    /\ mainPc = "manager_gone"
    /\ Release("manager")
    /\ mainPc' = "reset_mqtt"
    /\ UNCHANGED <<ev_thread, capture_running_, pool_alive>>
    /\ UNCHANGED <<orchVars, buffer, poolVars, cfgVars, ringVars, capVars, fnVars, handleVars>>

\* main.cpp:200: g_mqtt.reset(); the HealthController keeps the client
MainResetMqtt ==
    /\ mainPc = "reset_mqtt"
    /\ mainPc' = "reset_buffers"
    /\ UNCHANGED <<ev_thread, capture_running_, service_owners, svcPc, pool_alive>>
    /\ UNCHANGED <<orchVars, buffer, poolVars, cfgVars, ringVars, capVars, fnVars, handleVars>>

\* main.cpp:201: g_buffer_service.reset()
MainResetBuffers ==
    /\ mainPc = "reset_buffers"
    /\ Release("main")
    /\ mainPc' = "return"
    /\ UNCHANGED <<ev_thread, capture_running_, pool_alive>>
    /\ UNCHANGED <<orchVars, buffer, poolVars, cfgVars, ringVars, capVars, fnVars, handleVars>>

\* main.cpp:210: main returns and the static members of the controllers
\* are destroyed
MainReturn ==
    /\ mainPc = "return"
    /\ Release("controllers")
    /\ mainPc' = "exit"
    /\ UNCHANGED <<ev_thread, capture_running_, pool_alive>>
    /\ UNCHANGED <<orchVars, buffer, poolVars, cfgVars, ringVars, capVars, fnVars, handleVars>>

\* buffer_service.h:81-86: the members of CameraState that hold the pool,
\* the ring buffer and the capture, in the order of their declaration
CameraStateMembers == <<"pool", "buffer", "capture">>

\* rtsp_capture.h:55-56: the members of RtspCapture that hold the pool
\* and, in the frame callback, the ring buffer
RtspCaptureMembers == <<"frame_pool_", "on_frame_">>

\* members destroyed in the order of their declaration
DestructionOrder_Declared(members) == members

\* the members of an object are destroyed in the reverse order of their
\* declaration
DestructionOrder(members) ==
    [i \in 1 .. Len(members) |-> members[Len(members) + 1 - i]]

\* the shared_ptr members released by the destruction of a CameraState,
\* in their order
RECURSIVE Releases(_)
Releases(members) ==
    IF members = <<>> THEN <<>>
    ELSE (IF Head(members) = "capture"
          THEN DestructionOrder(RtspCaptureMembers) ELSE <<Head(members)>>)
         \o Releases(Tail(members))

ReleaseSteps == Releases(DestructionOrder(CameraStateMembers))

\* the holders of the CameraBuffer and of the FramePool among them
BufferHolders == {"buffer", "on_frame_"}
PoolHolders   == {"pool", "frame_pool_"}

\* ~BufferService (buffer_service.cpp:226-228) after stopAll(): one
\* member is released; the CameraBuffer goes with its last holder and
\* drops its frames, the FramePool goes with its last holder.  The members
\* of the capture go after ~RtspCapture has joined the capture thread.
DestroyMember ==
    /\ svcPc \in 1 .. Len(ReleaseSteps)
    /\ LET m    == ReleaseSteps[svcPc]
           gone == {ReleaseSteps[j] : j \in 1 .. svcPc}
       IN  /\ m \in {"frame_pool_", "on_frame_"} => capPc = "exited"
           /\ IF m \in BufferHolders /\ BufferHolders \subseteq gone /\ ~EventHoldsBuffer
              THEN /\ DropHandles(InRing(buffer[CapCam]), frame_number)
                   /\ buffer' = [buffer EXCEPT ![CapCam] = Clear(@)]
              ELSE UNCHANGED <<buffer, free_list_, fstate, refs, frame_number>>
           /\ pool_alive' = ~(PoolHolders \subseteq gone)
    /\ svcPc' = svcPc + 1
    /\ UNCHANGED <<mainPc, ev_thread, capture_running_, service_owners, acquired>>
    /\ UNCHANGED <<orchVars, cfgVars, ringVars, capVars, fnVars, handleVars>>

----------------------------------------------------------------------------
(* Specifications *)

\* the objects as their constructors leave them, but for the ring buffers
\* and the configuration
InitBase ==
    /\ mainPc = "run"
    /\ ev_thread = "none"
    /\ capture_running_ = TRUE
    /\ service_owners = ServiceOwners
    /\ svcPc = 0
    /\ pool_alive = TRUE
    /\ hpc = "idle"
    /\ held = {}
    /\ preroll_frames = 0
    /\ best_frame = "none"
    /\ connected \in BOOLEAN
    /\ status_retained = StatusAtStartup(connected)
    /\ subscriptions_ = {}
    /\ pending_subs_ = <<>>
    /\ brokerSubs = {}
    /\ running_ = FALSE
    /\ active_events_ = [c \in AllCams |-> NoEvent]
    /\ orphaned_threads_ = {}
    /\ nextId = 1
    /\ starts = 0
    /\ stops = 0
    /\ evCam = [e \in EventIds |-> ""]
    /\ evPostRoll = [e \in EventIds |-> 0]
    /\ stop_requested = [e \in EventIds |-> FALSE]
    /\ running = [e \in EventIds |-> TRUE]
    /\ freed = [e \in EventIds |-> FALSE]
    /\ thread = [e \in EventIds |-> "none"]
    /\ pc = [e \in EventIds |-> "none"]
    /\ my_event = [e \in EventIds |-> NoEvent]
    /\ pool_frames = [e \in EventIds |-> <<>>]
    /\ width = [e \in EventIds |-> 0]
    /\ frames_written = [e \in EventIds |-> 0]
    /\ rec_stop = [e \in EventIds |-> FALSE]
    /\ elapsed = [e \in EventIds |-> 0]
    /\ result = [e \in EventIds |-> ""]
    /\ pub = [e \in EventIds |-> <<>>]
    /\ stopPc = "idle"
    /\ threads_to_join = {}
    /\ cbPc = "idle"
    /\ cbMsg = NoMsg
    /\ free_list_ = [i \in 1 .. PoolCap |-> i]
    /\ fstate = [f \in Frames |-> "free"]
    /\ refs = [f \in Frames |-> 0]
    /\ frame_number = [f \in Frames |-> 0]
    /\ acquired = [call |-> 0, ret |-> -1]
    /\ frames_since_detection = [e \in EventIds |-> 0]
    /\ inference_count = [e \in EventIds |-> 0]
    /\ all_detections = [e \in EventIds |-> 0]
    /\ early_notification_sent = [e \in EventIds |-> FALSE]
    /\ llava_thread = [e \in EventIds |-> "none"]
    /\ db_log = [e \in EventIds |-> <<>>]
    /\ best_confidence = [e \in EventIds |-> 0]
    /\ snapshot_path = [e \in EventIds |-> ""]
    /\ vision_sync = [e \in EventIds |-> "none"]
    /\ ring_locked = FALSE
    /\ pushed = <<>>
    /\ snapshot = <<>>
    /\ prev_snapshot = <<>>
    /\ capPc = "top"
    /\ stream_open = FALSE
    /\ backoff_seconds = BackoffStart
    /\ frame_counter = 0
    /\ cap_frame = Null
    /\ waited = TRUE
    /\ reader_frames = <<>>
    /\ consecutive_failures_ = 0

\* ring buffers of buffer_capacity RingCap; no detection engine loaded, no
\* database and no vision model configured
Init ==
    /\ InitBase
    /\ buffer = [c \in Cameras |-> EmptyBuffer]
    /\ engine_loaded = FALSE
    /\ db_ = FALSE
    /\ llava_enabled = FALSE
    /\ args = NoCall
    /\ ret = NoCall

\* the event orchestrator on a bus connection that stays as it is: the
\* threads of start() and stop(), the bus thread, the event threads and
\* the capture threads
Next ==
    \/ Start
    \/ StopBegin
    \/ StopCollect
    \/ \E e \in EventIds : StopJoin(e)
    \/ StopReturn
    \/ \E t \in Topics, p \in Payloads, r \in 0 .. MaxPostRoll : CallbackEnter(t, p, r)
    \/ JoinOrphanedThreads
    \/ OnMotionStart
    \/ OnMotionStop
    \/ \E c \in Cameras, w \in 1 .. MaxDims : Capture(c, w)
    \/ \E e \in EventIds : TaskFind(e)
    \/ \E e \in EventIds : TaskBegin(e)
    \/ \E e \in EventIds : TaskDims(e)
    \/ \E e \in EventIds : TaskLive(e)
    \/ \E e \in EventIds : TaskPostRoll(e)
    \/ \E e \in EventIds : Tick(e)
    \/ \E e \in EventIds : TaskFinalize(e)
    \/ \E e \in EventIds : TaskCleanup(e)
    \/ \E e \in EventIds : TaskWrapper(e)

Spec == Init /\ [][Next]_vars

\* the bus client across connects and disconnects: start(), the
\* connection callbacks and the bus thread
NextBus ==
    \/ Start
    \/ MqttConnected
    \/ MqttConnectionLost
    \/ \E t \in Topics, p \in Payloads, r \in 0 .. MaxPostRoll : CallbackEnter(t, p, r)
    \/ JoinOrphanedThreads
    \/ OnMotionStart
    \/ OnMotionStop

SpecBus == Init /\ [][NextBus]_vars

\* the service behind a startup in which connect() returned true
InitStatus == Init /\ connected

\* the bus client of a running service: the connection is lost and the
\* automatic reconnect of the client, which retries with a delay of 1 s to
\* 64 s for as long as the client exists, brings it up again
SpecStatus == InitStatus /\ [][NextBus]_vars /\ WF_vars(MqttConnected)

\* the frame pool under threads that acquire, copy, stamp and drop handles
NextPool ==
    \/ AcquireLocked
    \/ \E f \in Frames : AcquireWrap(f)
    \/ \E f \in Frames : CopyHandle(f)
    \/ \E f \in Frames, n \in 1 .. MaxFrameNo : Stamp(f, n)
    \/ \E f \in Frames : DropHandle(f)
    \/ \E f \in Frames : RecycleLocked(f)

SpecPool == Init /\ [][NextPool]_vars

\* a ring buffer of capacity BigRingCap
InitRing ==
    /\ InitBase
    /\ buffer = [c \in Cameras |-> NewBuffer(BigRingCap)]
    /\ engine_loaded = FALSE
    /\ db_ = FALSE
    /\ llava_enabled = FALSE
    /\ args = NoCall
    /\ ret = NoCall

\* one ring buffer under its capture thread, clear() and a reader
NextRing ==
    \/ RingPushBegin
    \/ RingPushEnd
    \/ RingClear
    \/ RingGetBuffer

SpecRing == InitRing /\ [][NextRing]_vars

\* ring buffers that hold more frames than a recording may; a detection
\* engine may be loaded, a database and a vision model may be configured
InitTask ==
    /\ InitBase
    /\ buffer = [c \in Cameras |-> NewBuffer(BigRingCap)]
    /\ engine_loaded \in BOOLEAN
    /\ db_ \in BOOLEAN
    /\ llava_enabled \in BOOLEAN
    /\ args = NoCall
    /\ ret = NoCall

\* the course of the events of one camera, with detection, database and
\* vision, on a bus connection that may be lost while an event runs
NextTask ==
    \/ Start
    \/ MqttConnectionLost
    \/ \E t \in Topics, r \in 0 .. MaxPostRoll : CallbackEnter(t, CapCam, r)
    \/ JoinOrphanedThreads
    \/ OnMotionStart
    \/ OnMotionStop
    \/ \E w \in 1 .. MaxDims : Capture(CapCam, w)
    \/ \E e \in EventIds : TaskFind(e)
    \/ \E e \in EventIds : TaskBegin(e)
    \/ \E e \in EventIds : TaskDims(e)
    \/ \E e \in EventIds : TaskLive(e)
    \/ \E e \in EventIds : TaskPostRoll(e)
    \/ \E e \in EventIds : Tick(e)
    \/ \E e \in EventIds : TaskFinalize(e)
    \/ \E e \in EventIds : TaskLogDb(e)
    \/ \E e \in EventIds : LlavaFinish(e)
    \/ \E e \in EventIds : TaskVision(e)
    \/ \E e \in EventIds : TaskCleanup(e)
    \/ \E e \in EventIds : TaskWrapper(e)

SpecTask == InitTask /\ [][NextTask]_vars

\* the capture thread of one camera, its pool and ring buffer, and a reader
NextCapture ==
    \/ CapConnect
    \/ CapBackoff
    \/ CapTop
    \/ CapRead
    \/ CapDecode
    \/ CapDeliver
    \/ ReaderGetBuffer
    \/ ReaderRelease

SpecCapture == Init /\ [][NextCapture]_vars

\* no call of a function under test is made yet
InitFn ==
    /\ InitBase
    /\ buffer = [c \in Cameras |-> EmptyBuffer]
    /\ engine_loaded = FALSE
    /\ db_ = FALSE
    /\ llava_enabled = FALSE
    /\ ret = NoCall

\* topicMatches on any pattern and any topic
InitMatch ==
    /\ InitFn
    /\ args \in [f : {"topicMatches"},
                 pattern : Strings(PatternChars, MaxPatternLen),
                 topic : Strings(TopicChars, MaxTopicLen)]

NextMatch == TopicMatchesCall

SpecMatch == InitMatch /\ [][NextMatch]_vars

\* the final result of an event with any detections
InitResult ==
    /\ InitFn
    /\ args \in [f : {"final_result"}, all_detections : SeqsUpTo(Detections, MaxAllDets)]

NextResult == FinalResultCall

SpecResult == InitResult /\ [][NextResult]_vars

\* nms on any boxes
InitNms ==
    /\ InitFn
    /\ args \in [f : {"nms"}, dets : SeqsUpTo(NmsDets, MaxNmsDets),
                 iou_threshold : IouThresholds]

NextNms == NmsCall

SpecNms == InitNms /\ [][NextNms]_vars

\* postprocess on any candidates, for an image of 16 by 16 pixels that was
\* scaled by 1/2 and padded by 1 for the model
InitPostprocess ==
    /\ InitFn
    /\ args \in [f : {"postprocess"},
                 output : SeqsUpTo(Candidates, MaxCandidates),
                 conf_threshold : ConfThresholds,
                 iou_threshold : {45},
                 scale : {[num |-> 1, den |-> 2]},
                 pad_x : {1}, pad_y : {1},
                 orig_width : {16}, orig_height : {16},
                 filter_classes : FilterClasses]

NextPostprocess == PostprocessCall

SpecPostprocess == InitPostprocess /\ [][NextPostprocess]_vars

\* analyze on any snapshot file, any outcome of the request and any text
InitAnalyze ==
    /\ InitFn
    /\ args \in [f : {"analyze"},
                 snapshot : {"unreadable", "empty", "readable"},
                 request : {"curl_error", "http_error", "bad_json", "ok"},
                 response : SeqsUpTo(TextChars, MaxTextLen)]

NextAnalyze == AnalyzeCall

SpecAnalyze == InitAnalyze /\ [][NextAnalyze]_vars

\* any step of event thread e
TaskStep(e) ==
    \/ TaskFind(e) \/ TaskBegin(e) \/ TaskDims(e) \/ TaskLive(e) \/ TaskPostRoll(e)
    \/ Tick(e) \/ TaskFinalize(e) \/ TaskCleanup(e) \/ TaskWrapper(e)

\* the events of one camera that never receive a stop trigger: start
\* triggers only, no stop(); the camera delivers frames as it likes and may
\* switch to another resolution; an event thread that can take a step
\* takes it in the end
NextLive ==
    \/ Start
    \/ \E r \in 0 .. MaxPostRoll : CallbackEnter(TopicStart, CapCam, r)
    \/ JoinOrphanedThreads
    \/ OnMotionStart
    \/ \E w \in 1 .. MaxDims + 1 : Capture(CapCam, w)
    \/ \E e \in EventIds : TaskStep(e)

SpecLive ==
    /\ InitRing
    /\ [][NextLive]_vars
    /\ \A e \in EventIds : WF_vars(TaskStep(e))

\* a frame of any dimensions, or none, in a loop of an event whose
\* recorder was started with the dimensions width and height
InitLoopFrame ==
    /\ InitFn
    /\ \E loop \in {"live", "postroll"}, frame \in FrameDimensions \cup {NullFrame},
          dims \in FrameDimensions :
          args = [f |-> "loop_frame", loop |-> loop, frame |-> frame,
                  width |-> dims.width, height |-> dims.height]

NextLoopFrame == LoopFrameCall

SpecLoopFrame == InitLoopFrame /\ [][NextLoopFrame]_vars

\* main from start() to its return, with the bus thread, the event thread
\* and the capture thread of one camera
NextShutdown ==
    \/ Start
    \/ CapConnect
    \/ CapBackoff
    \/ CapTop
    \/ CapRead
    \/ CapDecode
    \/ CapDeliver
    \/ CapExit
    \/ ShutCallbackEnter
    \/ ShutOnMotionStart
    \/ ShutEventStep
    \/ MainQuit
    \/ MainStop("stop", "join")
    \/ MainJoin("join", "stop_captures", "joined_by_stop")
    \/ MainStopCaptures
    \/ MainJoinCapture
    \/ MainMqttOff
    \/ MainStop("reset_manager", "join_in_destructor")
    \/ MainJoin("join_in_destructor", "manager_gone", "joined_by_destructor")
    \/ MainManagerGone
    \/ MainResetMqtt
    \/ MainResetBuffers
    \/ MainReturn
    \/ DestroyMember

SpecShutdown == Init /\ [][NextShutdown]_vars

\* the capture thread of one camera and an event thread of the camera
NextHandles ==
    \/ CapConnect
    \/ CapBackoff
    \/ CapTop
    \/ CapRead
    \/ CapDecode
    \/ CapDeliver
    \/ HGetBuffer
    \/ HDrain
    \/ HDims
    \/ HStartRecorder
    \/ HLoopTop("live", "postroll")
    \/ HLiveFrame
    \/ HSleepEnds("live_retry", "live")
    \/ HSleepEnds("live_sleep", "live")
    \/ HLoopTop("postroll", "finalize")
    \/ HPostrollFrame
    \/ HSleepEnds("postroll_sleep", "postroll")
    \/ HAfterLoops

SpecHandles == Init /\ [][NextHandles]_vars








----------------------------------------------------------------------------
(* Properties *)

\* an event thread that has been spawned and has not ended
TaskExists(e) == pc[e] \notin {"none", "done"}

\* FramePool::in_use seen from the frames: those not in the free list
FramesOut == {f \in Frames : fstate[f] # "free"}

\* how often frame f is in the free list
Occurrences(f) == Cardinality({i \in 1 .. Len(free_list_) : free_list_[i] = f})

\* C1: a motion-start trigger for a camera whose event is active is ignored
\* (no second event thread, no second recording), so at every moment at
\* most one event thread exists per camera.
C1_OneTaskPerCamera ==
    \A c \in AllCams :
        Cardinality({e \in EventIds : evCam[e] = c /\ TaskExists(e)}) <= 1

\* C2: every event thread that ends has removed its camera's entry from the
\* active-events map, so that the camera is idle again and a later
\* motion-start for it is accepted; stated for the events that ran through
\* to the cleanup at the end of processEvent.
C2_EndedTaskLeavesMap ==
    \A e \in EventIds :
        (pc[e] = "done" /\ result[e] = "completed") => e \notin Registered

\* C3: an event that a motion-stop trigger took out of its live phase (it
\* completed below the maximum duration and stop() was never called) has
\* entered its post-roll and is no longer active once it has finalized and
\* ended.
C3_StoppedEventEnds ==
    \A e \in EventIds :
        ( /\ stops = 0
          /\ pc[e] = "done"
          /\ result[e] = "completed"
          /\ frames_written[e] < MaxFrames )
        => (rec_stop[e] /\ elapsed[e] <= evPostRoll[e] /\ e \notin Registered)

\* C4: an event thread that ended because a stage failed (no ring buffer,
\* no frame to take the dimensions from, the recorder did not start) has
\* removed its entry from the active-events map and holds no pooled frame.
C4_FailedTaskCleansUp ==
    \A e \in EventIds :
        (pc[e] = "done" /\ result[e] \in {"no_buffer", "no_frames", "recorder_failed"})
        => (e \notin Registered /\ pool_frames[e] = <<>>)

\* C5: a trigger with invalid JSON, without camera_id or for a camera that
\* is not configured is dropped: it adds no entry to the active-events
\* map, spawns no event thread and publishes no bus message.
C5_InvalidTriggerDropped ==
    /\ \A c \in AllCams : EventActive(c) => c \in Cameras
    /\ \A e \in EventIds : thread[e] # "none" => evCam[e] \in Cameras
    /\ \A e \in EventIds : pub[e] # <<>> => evCam[e] \in Cameras

\* C6: events on different cameras are independent.  A start trigger for
\* camera a is accepted exactly when no event is registered for a itself,
\* whatever the other cameras do, and touches no other camera's entry; a
\* stop flag is only ever set by stop() or by a stop trigger for the
\* event's own camera.
C6_CameraIndependence ==
    [][ /\ (cbPc = "start_locked" /\ cbPc' = "idle") =>
            LET a == cbMsg.camera_id
            IN  /\ ~EventActive(a) =>
                      /\ active_events_'[a] = nextId
                      /\ pc'[nextId] = "find"
                      /\ evCam'[nextId] = a
                /\ EventActive(a) => (active_events_' = active_events_ /\ pc' = pc)
                /\ \A b \in AllCams \ {a} : active_events_'[b] = active_events_[b]
        /\ \A e \in EventIds :
              (stop_requested'[e] /\ ~stop_requested[e]) =>
                  \/ stopPc = "collect" /\ stopPc' = "join"
                  \/ cbPc = "stop" /\ cbPc' = "idle" /\ cbMsg.camera_id = evCam[e]
      ]_vars

\* two cameras record at the same time and a stop trigger has reached one
\* of them only
C6_Witness ==
    \E e1, e2 \in EventIds :
        /\ evCam[e1] = "cam1" /\ evCam[e2] = "cam2"
        /\ pc[e1] = "live" /\ pc[e2] = "live"
        /\ stop_requested[e1] /\ ~stop_requested[e2]
        /\ stops = 0

\* C7: once stop() has returned, no event thread is running, the
\* active-events map is empty and no trigger has started a new event, not
\* even one whose bus callback was already executing when stop() began.
C7_StoppedMeansQuiet ==
    stopPc = "returned" =>
        /\ \A e \in EventIds : ~TaskExists(e)
        /\ Registered = {}

\* C8: after start() the orchestrator is subscribed to both trigger topics
\* whenever the bus is connected, whether it was connected when start()
\* was called or connected only afterwards.
C8_SubscribedAfterStart ==
    (starts > 0 /\ connected) =>
        (Topics \subseteq brokerSubs /\ Topics \subseteq subscriptions_)

\* C9: available() + in_use() = capacity(), in_use() is the number of
\* frames out of the free list, and every preallocated frame is either in
\* the free list exactly once or out of it (held through handles, or in
\* the hands of the acquire() or recycle() that moves it), never both.
C9_PoolAccounting ==
    /\ Available + InUse = PoolCap
    /\ InUse = Cardinality(FramesOut)
    /\ \A f \in Frames : Occurrences(f) = IF fstate[f] = "free" THEN 1 ELSE 0
    /\ \A f \in Frames : refs[f] > 0 <=> fstate[f] = "held"

\* one frame is held through two handles while the other is free
C9_Witness ==
    /\ Available = 1
    /\ InUse = 1
    /\ \E f \in Frames : refs[f] = 2

\* C10: an acquire() on an empty free list returns nullptr in the same
\* step, without waiting for a frame, and leaves available() and in_use()
\* as they were.
C10_ExhaustedAcquire ==
    /\ [](Available = 0 => ENABLED AcquireLocked)
    /\ [][ (Available = 0 /\ acquired'.call # acquired.call) =>
              /\ acquired'.ret = Null
              /\ Available' = Available
              /\ InUse' = InUse
              /\ fstate' = fstate
         ]_vars

\* the pool is exhausted and the last acquire() returned nullptr
C10_Witness ==
    /\ Available = 0
    /\ InUse = PoolCap
    /\ acquired.ret = Null

\* C11: the last handle dropped returns exactly its frame to the free list.
\* The recycle() run by the deleter of frame f appends f, and nothing else,
\* to the free list, so available() grows by one; the drop of a handle
\* that is not the last returns nothing; and whenever every handle has
\* been dropped and every deleter has run, available() = capacity() with
\* each frame in the list once, whatever the interleaving was.
C11_DropReturnsFrame ==
    /\ []( (\A f \in Frames : fstate[f] = "free") =>
             (Available = PoolCap /\ \A f \in Frames : Occurrences(f) = 1) )
    /\ [][ \A f \in Frames :
             /\ (fstate[f] = "recycling" /\ fstate'[f] # "recycling") =>
                    (free_list_' = Append(free_list_, f) /\ Available' = Available + 1)
             /\ (refs[f] > 1 /\ refs'[f] = refs[f] - 1) =>
                    (free_list_' = free_list_ /\ fstate'[f] = "held")
          ]_vars

\* both frames were acquired and dropped, the second one first, and the
\* pool is full again
C11_Witness ==
    /\ Available = PoolCap
    /\ free_list_[1] # 1
    /\ \A f \in Frames : fstate[f] = "free"
    /\ acquired.ret \in Frames

\* the last k elements of sequence s
Last(s, k) == [i \in 1 .. k |-> s[Len(s) - k + i]]

\* C12: after N pushes (since construction or the last clear()) into a ring
\* buffer of capacity C the buffer is the bounded FIFO of the last
\* min(N, C) pushed frames: size() = min(N, C), getBuffer() returns exactly
\* these frames oldest to newest, and getLatestFrame() returns the frame
\* pushed last, or nullptr when nothing was pushed or after clear().
C12_RingIsBoundedFifo ==
    ~ring_locked =>
        LET b == buffer[CapCam]
            N == Len(pushed)
            k == Min(N, b.capacity_)
        IN  /\ Size(b) = k
            /\ GetBuffer(b) = Last(pushed, k)
            /\ GetLatestFrame(b) = IF N = 0 THEN 0 ELSE pushed[N]

\* the ring was cleared, filled again and has evicted its oldest frame
C12_Witness ==
    /\ ~ring_locked
    /\ Len(pushed) > buffer[CapCam].capacity_
    /\ frame_counter > Len(pushed)

\* C13: with one capture thread pushing frames of strictly increasing
\* frame numbers and a concurrent reader, every getBuffer() observation is
\* a contiguous, strictly increasing window of the push sequence without
\* an empty slot; it is the window of the pushes completed when it is
\* taken (no push is seen half applied); and of two consecutive
\* observations the later one has only moved forward.
C13_SnapshotsOrdered ==
    /\ []( /\ \A i \in 1 .. Len(snapshot) - 1 : snapshot[i + 1] = snapshot[i] + 1
           /\ \A i \in 1 .. Len(snapshot) : snapshot[i] \in 1 .. frame_counter
           /\ (snapshot # <<>> /\ prev_snapshot # <<>>) =>
                 /\ snapshot[1] >= prev_snapshot[1]
                 /\ snapshot[Len(snapshot)] >= prev_snapshot[Len(prev_snapshot)] )
    /\ [][ (buffer' = buffer /\ pushed' = pushed /\ prev_snapshot' = snapshot
              /\ ring_locked' = ring_locked) =>
                snapshot' = Last(pushed, Min(Len(pushed), buffer[CapCam].capacity_))
          ]_vars

\* two observations of a full ring, the second one moved forward
C13_Witness ==
    /\ Len(snapshot) = BigRingCap
    /\ Len(prev_snapshot) = BigRingCap
    /\ snapshot[1] > prev_snapshot[1]

\* the positions in the publish log of event e of a message
At(e, topic, payload) ==
    {i \in 1 .. Len(pub[e]) : pub[e][i].topic = topic /\ pub[e][i].payload = payload}

\* processEvent of event e has run through to its end
Completed(e) == pc[e] \in {"wrapper", "done"} /\ result[e] = "completed"

\* C14: each event emits at most one early notification (one result message
\* with phase early and one detected ON message), and it emits it in the
\* step of its first detection sample that returns detections, in the live
\* loop or in the post-roll loop; later samples with detections emit
\* nothing.
C14_OneEarlyNotification ==
    /\ [](\A e \in EventIds :
            /\ Cardinality(At(e, "result", "early")) <= 1
            /\ Cardinality(At(e, "detected", "ON")) <= 1
            /\ Cardinality(At(e, "result", "early")) = 1 <=> all_detections[e] > 0
            /\ early_notification_sent[e] <=> all_detections[e] > 0)
    /\ [][ \A e \in EventIds :
             (all_detections'[e] > all_detections[e]) =>
                IF all_detections[e] = 0
                THEN /\ Len(pub'[e]) = Len(pub[e]) + 2
                     /\ At(e, "result", "early")' = {Len(pub[e]) + 1}
                     /\ At(e, "detected", "ON")' = {Len(pub[e]) + 2}
                     /\ pc[e] \in {"live", "postroll"}
                ELSE pub'[e] = pub[e]
         ]_vars

\* an event with detections in two samples has published one early
\* notification
C14_Witness ==
    \E e \in EventIds :
        /\ all_detections[e] = 2
        /\ Cardinality(At(e, "result", "early")) = 1
        /\ Completed(e)

\* the first detection of an event came in its post-roll
C14_WitnessPostRoll ==
    \E e \in EventIds :
        /\ pc[e] = "postroll"
        /\ frames_written[e] = 1
        /\ buffer[evCam[e]].count_ = 1
        /\ At(e, "result", "early") # {}
        /\ stop_requested[e]

\* C15: the bus messages of an event that runs to completion are published
\* in program order: the started status is the first message, an early
\* result comes before the final result, the final result before the
\* completed status, and a context message only after the final result;
\* the started status, the final result and the completed status are
\* published exactly once.
C15_MessageOrder ==
    \A e \in EventIds :
        /\ pub[e] # <<>> => At(e, "detection", "started") = {1}
        /\ \A i \in At(e, "result", "early"), j \in At(e, "result", "final") : i < j
        /\ \A i \in At(e, "result", "final"), j \in At(e, "detection", "completed") : i < j
        /\ \A i \in At(e, "context", "llava") :
              \E j \in At(e, "result", "final") : j < i
        /\ Completed(e) =>
              /\ Cardinality(At(e, "result", "final")) = 1
              /\ Cardinality(At(e, "detection", "completed")) = 1

\* a completed event that published an early result and a context message
C15_Witness ==
    \E e \in EventIds :
        /\ Completed(e)
        /\ At(e, "result", "early") # {}
        /\ At(e, "context", "llava") # {}
        /\ \A i \in 1 .. Len(pub[e]) : pub[e][i].sent

\* the EventLogger calls event e has made, in their order
DbCallsMade(e) == [i \in 1 .. Len(db_log[e]) |-> db_log[e][i].call]

\* C16: a failed database call, a bus publication that is not sent and a
\* failed or invalid vision call do not end the event thread: it is never
\* stuck in its database or bookkeeping step, and a completed event has
\* made every database call due (create_event, log_detections,
\* complete_event and, after a valid vision result, log_ai_context),
\* joined its vision thread and gone through its final bookkeeping.
C16_FailureIsolation ==
    /\ [](\A e \in EventIds :
            /\ pc[e] = "log_db" => ENABLED TaskLogDb(e)
            /\ (pc[e] = "vision" /\ llava_thread[e] # "running") => ENABLED TaskVision(e)
            /\ pc[e] = "cleanup" => ENABLED TaskCleanup(e))
    /\ [](\A e \in EventIds :
            Completed(e) =>
              /\ llava_thread[e] \in {"none", "joined_valid", "joined_invalid"}
              /\ db_ =>
                   DbCallsMade(e) =
                      <<"create_event", "log_detections", "complete_event">>
                      \o (IF llava_thread[e] = "joined_valid"
                          THEN <<"log_ai_context">> ELSE <<>>)
              /\ ~db_ => db_log[e] = <<>>)

\* an event has completed although its first database call failed, its
\* vision result was invalid and one of its messages was not sent
C16_Witness ==
    \E e \in EventIds :
        /\ Completed(e)
        /\ db_log[e] # <<>> /\ ~db_log[e][1].ok
        /\ llava_thread[e] = "joined_invalid"
        /\ \E i \in 1 .. Len(pub[e]) : ~pub[e][i].sent

\* C17: every message an event thread publishes (detection, result,
\* detected, context) is published non-retained with QoS 0.
C17_EventStreamQos0 ==
    \A e \in EventIds : \A i \in 1 .. Len(pub[e]) :
        pub[e][i].qos = 0 /\ ~pub[e][i].retain

\* C18: a recording never holds more than fps * MAX_DURATION_SECONDS
\* written frames, pre-roll and live frames together: once the count has
\* reached the maximum no step of the event adds a frame to it.
C18_MaxFramesWritten ==
    /\ [](\A e \in EventIds : frames_written[e] <= MaxFrames)
    /\ [][ \A e \in EventIds :
             IsMaxDurationReached(e) => frames_written'[e] = frames_written[e]
         ]_vars
    /\ [][ \A e \in EventIds :
             (pc[e] = "dims" /\ pc'[e] = "live") =>
                frames_written'[e] =
                    Min(Len(SelectIn(pool_frames[e], {width'[e]})), MaxFrames)
         ]_vars

\* a recorder was started on more pre-roll frames than a recording may
\* hold and has written the maximum
C18_Witness ==
    \E e \in EventIds :
        /\ pc[e] = "live"
        /\ frames_written[e] = MaxFrames
        /\ frames_since_detection[e] = 0 /\ all_detections[e] = 0
        /\ buffer[evCam[e]].count_ > MaxFrames

\* C19: when acquire() reports the pool exhausted, the capture thread
\* drops the decoded frame: nothing is pushed to the ring buffer, the frame
\* counter does not advance, the stream stays open and the thread goes on
\* decoding at once, without a back-off and without waiting for a frame to
\* come free.
C19_ExhaustionDropsFrame ==
    /\ [][ (acquired'.call # acquired.call /\ acquired'.ret = Null) =>
              /\ buffer' = buffer
              /\ frame_counter' = frame_counter
              /\ stream_open /\ stream_open'
              /\ capPc' = "decode"
              /\ <<backoff_seconds, waited>>' = <<backoff_seconds, waited>>
              /\ <<free_list_, fstate, refs>>' = <<free_list_, fstate, refs>>
         ]_vars
    /\ [](capPc = "decode" => ENABLED CapDecode)

\* the pool is exhausted (one frame in the ring, one held by a reader) and
\* the capture thread has just dropped a decoded frame
C19_Witness ==
    /\ Available = 0
    /\ acquired.ret = Null
    /\ capPc = "decode"
    /\ stream_open
    /\ reader_frames # <<>>
    /\ frame_counter = PoolCap

\* C20: the capture never tries to reopen the stream without a back-off
\* wait since the stream was torn down (after a failed open, a read error
\* or the end of the stream).
C20_ReopenAfterBackoff ==
    [][ (capPc = "top" /\ ~stream_open /\ capPc' # "top") => waited ]_vars

\* C21: the reconnect back-off is 5 s at the first failed open and doubles
\* with each further consecutive failure up to 60 s (5, 10, 20, 40, 60,
\* 60, ...); it never leaves [5, 60]; a successful open sets it back to 5 s
\* and consecutive_failures to 0.
C21_BackoffSchedule ==
    /\ [](backoff_seconds \in BackoffStart .. BackoffMax)
    /\ [](capPc = "backoff" =>
            /\ consecutive_failures_ >= 1
            /\ backoff_seconds =
                  Min(BackoffStart * 2 ^ (consecutive_failures_ - 1), BackoffMax))
    /\ [](capPc # "backoff" =>
            backoff_seconds = Min(BackoffStart * 2 ^ consecutive_failures_, BackoffMax))
    /\ [][ (~stream_open /\ stream_open') =>
              (backoff_seconds' = BackoffStart /\ consecutive_failures_' = 0) ]_vars

\* the sixth consecutive failed open waits 60 s, as the fifth did
C21_Witness ==
    /\ capPc = "backoff"
    /\ consecutive_failures_ = 6
    /\ backoff_seconds = BackoffMax

\* a pattern matches a topic, segment by segment: '+' matches one segment,
\* a terminal '#' whatever remains, any other segment its equal
RECURSIVE SubscriptionMatches(_, _)
SubscriptionMatches(pat_parts, top_parts) ==
    IF pat_parts = <<>> THEN top_parts = <<>>
    ELSE IF Head(pat_parts) = <<"#">> THEN Len(pat_parts) = 1
    ELSE IF top_parts = <<>> THEN FALSE
    ELSE /\ Head(pat_parts) \in {<<"+">>, Head(top_parts)}
         /\ SubscriptionMatches(Tail(pat_parts), Tail(top_parts))

\* C22: topicMatches accepts a topic exactly when each literal pattern
\* segment equals the topic segment at its position, each '+' stands for
\* exactly one topic segment, and a '#', which must be the last pattern
\* segment, stands for zero or more remaining topic segments.
C22_TopicMatching ==
    ret.f = "topicMatches" =>
        ret.value = SubscriptionMatches(Split(args.pattern), Split(args.topic))

\* C23: without a loaded detection model no inference is run for an event,
\* nothing is detected, no early notification is published and no vision
\* call is made; the event is recorded all the same: its loops, its
\* finalization and its bookkeeping go on, and the event that has run to
\* its end has published a final result, the binary state OFF and the
\* completed status, with zero detections.
C23_NoModelStillRecords ==
    ~engine_loaded =>
        \A e \in EventIds :
            /\ inference_count[e] = 0
            /\ all_detections[e] = 0
            /\ ~early_notification_sent[e]
            /\ llava_thread[e] = "none"
            /\ At(e, "result", "early") = {}
            /\ At(e, "detected", "ON") = {}
            /\ At(e, "context", "llava") = {}
            /\ pc[e] = "live" => ENABLED TaskLive(e)
            /\ pc[e] = "postroll" => ENABLED TaskPostRoll(e)
            /\ pc[e] = "finalize" => ENABLED TaskFinalize(e)
            /\ pc[e] # "vision"
            /\ Completed(e) =>
                  /\ Cardinality(At(e, "result", "final")) = 1
                  /\ Cardinality(At(e, "detected", "OFF")) = 1
                  /\ Cardinality(At(e, "detection", "completed")) = 1

\* an event without a detection model has been stopped, has recorded
\* frames through its post-roll and has run to its end, with a database
\* and a vision model configured
C23_Witness ==
    \E e \in EventIds :
        /\ ~engine_loaded /\ db_ /\ llava_enabled
        /\ Completed(e)
        /\ frames_written[e] = MaxFrames
        /\ frames_since_detection[e] >= SampleInterval
        /\ DbCallsMade(e) = <<"create_event", "log_detections", "complete_event">>

\* the confidences the detections of class cls have in a sequence
ConfidencesOf(all, cls) ==
    {all[i].confidence : i \in {j \in 1 .. Len(all) : all[j].class_name = cls}}

\* the largest element of a non-empty set of numbers
Max(S) == CHOOSE x \in S : \A y \in S : y <= x

RECURSIVE SumOver(_, _)
SumOver(f, D) ==
    IF D = {} THEN 0
    ELSE LET x == CHOOSE y \in D : TRUE IN f[x] + SumOver(f, D \ {x})

\* C24: the final result and the detection rows hold one detection for each
\* class seen in the event and none for any other class, the one of each
\* class having the highest confidence recorded for the class (rounded to
\* thousandths in the message); detection_count is the number of all
\* detections, and the per-class counts add up to it.
C24_OnePerClass ==
    ret.f = "final_result" =>
        LET all == args.all_detections
            seen == {all[i].class_name : i \in 1 .. Len(all)}
        IN  /\ {d.class : d \in ret.detections} = seen
            /\ {r.class_name : r \in ret.det_records} = seen
            /\ Cardinality(ret.detections) = Cardinality(seen)
            /\ Cardinality(ret.det_records) = Cardinality(seen)
            /\ \A d \in ret.detections :
                  d.confidence = Round3(Max(ConfidencesOf(all, d.class)))
            /\ \A r \in ret.det_records :
                  r.confidence = Max(ConfidencesOf(all, r.class_name))
            /\ ret.detection_count = Len(all)
            /\ DOMAIN ret.class_counts = seen
            /\ SumOver(ret.class_counts, seen) = ret.detection_count

\* three detections of two classes, the better person detection first
C24_Witness ==
    /\ ret.f = "final_result"
    /\ Len(args.all_detections) = 3
    /\ Cardinality(ret.detections) = 2
    /\ args.all_detections[1].class_name = "person"
    /\ args.all_detections[3].class_name = "person"
    /\ args.all_detections[1].confidence > args.all_detections[3].confidence

\* C25: non-maximum suppression works class by class.  A box of the highest
\* confidence of each class is kept; a box is discarded exactly when a kept
\* box of its class, taken before it, has an IoU with it above the
\* threshold, so that boxes of different classes never suppress each other
\* and a box that overlaps no other box of its class survives; of
\* identical boxes of one class at most one is kept, and it is one of the
\* highest confidence among them.
C25_NmsPerClass ==
    ret.f = "nms" =>
        LET dets == args.dets
            thr  == args.iou_threshold
            all  == 1 .. Len(dets)
            Same(i, j) == i # j /\ dets[i].class_id = dets[j].class_id
            Over(i, j) == IouAbove(dets[i].box, dets[j].box, thr)
        IN  /\ ret.keep \subseteq all
            /\ \A i \in all : \E k \in ret.keep :
                  /\ dets[k].class_id = dets[i].class_id
                  /\ dets[k].confidence >= dets[i].confidence
            /\ \A i \in all :
                  i \notin ret.keep <=>
                     \E k \in ret.keep :
                        /\ Same(k, i) /\ Over(k, i)
                        /\ dets[k].confidence >= dets[i].confidence
            /\ \A i \in all :
                  (\A j \in all : Same(i, j) => ~Over(i, j)) => i \in ret.keep
            /\ \A i, j \in all :
                  (Same(i, j) /\ dets[i].box = dets[j].box) =>
                     /\ ~(i \in ret.keep /\ j \in ret.keep)
                     /\ i \in ret.keep => dets[i].confidence >= dets[j].confidence

\* three boxes of one class: the second overlaps the first and the third,
\* which do not overlap each other at this threshold; and the first and
\* the third are kept
C25_Witness ==
    /\ ret.f = "nms"
    /\ Len(args.dets) = 3
    /\ \A i \in 1 .. 3 : args.dets[i].class_id = 0
    /\ IouAbove(args.dets[1].box, args.dets[2].box, args.iou_threshold)
    /\ IouAbove(args.dets[2].box, args.dets[3].box, args.iou_threshold)
    /\ ~IouAbove(args.dets[1].box, args.dets[3].box, args.iou_threshold)
    /\ ret.keep = {1, 3}

\* C26: every detection postprocess returns has a confidence of at least
\* conf_threshold, a class name of the allow-list when the allow-list is
\* not empty, and a box inside [0, orig_w] x [0, orig_h] of at least one
\* pixel each way; the detections are in descending order of confidence.
C26_PostprocessFilters ==
    ret.f = "postprocess" =>
        /\ \A i \in 1 .. Len(ret.result) :
              LET d == ret.result[i]
              IN  /\ d.confidence >= args.conf_threshold
                  /\ args.filter_classes # {} => d.class_name \in args.filter_classes
                  /\ 0 <= d.box.x1 /\ d.box.x2 <= args.orig_width
                  /\ 0 <= d.box.y1 /\ d.box.y2 <= args.orig_height
                  /\ d.box.x2 - d.box.x1 >= 1
                  /\ d.box.y2 - d.box.y1 >= 1
        /\ \A i, j \in 1 .. Len(ret.result) :
              i < j => ret.result[i].confidence >= ret.result[j].confidence

\* a text without its leading and trailing whitespace
RECURSIVE Trimmed(_)
Trimmed(s) ==
    IF s = <<>> THEN s
    ELSE IF Head(s) \in Whitespace THEN Trimmed(Tail(s))
    ELSE IF s[Len(s)] \in Whitespace THEN Trimmed(SubSeq(s, 1, Len(s) - 1))
    ELSE s

\* C27: a vision result is valid exactly when the snapshot was read, the
\* request was answered and the response, without its leading and trailing
\* whitespace, has the least length and holds a space; a shorter text, a
\* text without a space, an empty text and a text of whitespace alone are
\* invalid, as are a failed request and an unreadable snapshot.
C27_VisionValidation ==
    ret.f = "analyze" =>
        (ret.is_valid <=>
            /\ args.snapshot = "readable"
            /\ args.request = "ok"
            /\ Len(Trimmed(args.response)) >= MinContextLen
            /\ \E i \in 1 .. Len(Trimmed(args.response)) : Trimmed(args.response)[i] = " ")

\* C28: once the live loop has ended and the recorder was asked to stop,
\* the event thread goes on writing frames, and the recording is not
\* finalized, until the post-roll is complete or the maximum duration is
\* reached.
C28_PostRollBeforeFinalize ==
    [][ \A e \in EventIds :
          (pc[e] = "postroll" /\ pc'[e] = "finalize") =>
             (rec_stop[e] /\ (IsPostRollComplete(e) \/ IsMaxDurationReached(e))) ]_vars

\* C29: an event that never receives a stop trigger ends: its live loop
\* runs to the maximum duration, the recording is finalized, the results
\* are published and the event thread ends.
C29_EventTerminates ==
    \A e \in EventIds : (pc[e] = "live") ~> (pc[e] = "done")

\* the handles of frame f outside the event thread: the ring buffer's, and
\* the capture thread's between acquire() and the push
HandlesElsewhere(f) ==
    (IF f \in InRing(buffer[CapCam]) THEN 1 ELSE 0) + (IF cap_frame = f THEN 1 ELSE 0)

PastVision(e) == pc[e] = "cleanup" \/ Completed(e)

\* the vision thread of event e has been joined
VisionJoined(e) == llava_thread[e] \in {"joined_valid", "joined_invalid"}

\* C31: an event thread that launched a vision thread joins it before it
\* ends, whether or not a stop was requested and whatever failed in the
\* database and on the bus; the join returns only when the vision thread
\* has ended, the context is published and logged in the step of the join
\* and only for a result the thread left valid, and no event has both a
\* vision thread and a synchronous vision call.
C31_VisionThreadJoined ==
    /\ [](\A e \in EventIds :
            /\ PastVision(e) => (llava_thread[e] = "none" \/ VisionJoined(e))
            /\ pc[e] \in {"wrapper", "done"} =>
                  (llava_thread[e] = "none" \/ VisionJoined(e))
            /\ ~(llava_thread[e] # "none" /\ vision_sync[e] # "none"))
    /\ [][ \A e \in EventIds :
             /\ (llava_thread[e] # llava_thread'[e] /\ VisionJoined(e)') =>
                   /\ pc[e] = "vision"
                   /\ llava_thread[e] \in {"valid", "invalid"}
                   /\ Len(pub'[e]) > Len(pub[e]) => llava_thread[e] = "valid"
                   /\ Len(db_log'[e]) > Len(db_log[e]) => llava_thread[e] = "valid"
             /\ (pc[e] = "vision" /\ llava_thread[e] # "none"
                   /\ (pub'[e] # pub[e] \/ db_log'[e] # db_log[e])) => VisionJoined(e)' ]_vars

\* an event whose stop was requested has completed and has joined its
\* vision thread, which left a valid result, after every database call of
\* the event had failed
C31_Witness ==
    \E e \in EventIds :
        /\ Completed(e)
        /\ stop_requested[e]
        /\ llava_thread[e] = "joined_valid"
        /\ Len(db_log[e]) = 4
        /\ \A i \in 1 .. Len(db_log[e]) : ~db_log[e][i].ok

\* C32: an event that has launched no vision thread, with a vision model
\* configured, a saved snapshot and a best detection that meets the
\* camera's gate, has made the synchronous vision call by the time its
\* vision block is over.
C32_SynchronousVision ==
    \A e \in EventIds :
        (/\ PastVision(e)
         /\ llava_thread[e] = "none"
         /\ llava_enabled
         /\ snapshot_path[e] # ""
         /\ best_confidence[e] >= ConfGate) => vision_sync[e] # "none"

\* the vision result of event e passed validation
VisionValid(e) == llava_thread[e] = "joined_valid" \/ vision_sync[e] = "valid"

C34_RecorderDimensions ==
    (ret.f = "loop_frame" /\ ret.written) =>
        (args.frame.width = args.width /\ args.frame.height = args.height)

\* the handles of pooled frames there are: the ring buffer's, the capture
\* thread's and the event thread's
HandlesOut ==
    InRing(buffer[CapCam]) \cup held \cup (IF cap_frame = Null THEN {} ELSE {cap_frame})

C36_RecordOutlivesTask ==
    \A e \in EventIds :
        /\ pc[e] \in {"live", "postroll"} => ~freed[my_event[e]]
        /\ TaskExists(e) => ~freed[e]

\* C37: a frame is in the free list only when no handle of it is left, and
\* goes there in the step that drops its last handle; the capture thread
\* writes the pixels and the frame number only of the frame it has just
\* acquired, of which it holds the one handle: never of a frame that is in
\* the ring buffer or that the event thread holds.
C37_NoWriteToSharedFrame ==
    /\ [](\A f \in Frames :
            fstate[f] = "free" => (refs[f] = 0 /\ f \notin HandlesOut))
    /\ [](capPc = "deliver" =>
            /\ cap_frame \in Frames
            /\ refs[cap_frame] = 1
            /\ cap_frame \notin InRing(buffer[CapCam]) \cup held)
    /\ [][ \A f \in Frames :
             /\ (fstate[f] # "free" /\ fstate'[f] = "free") =>
                   (refs[f] = 1 /\ refs'[f] = 0 /\ f \notin HandlesOut')
             /\ (frame_number'[f] # frame_number[f] /\ frame_number'[f] # 0) =>
                   /\ capPc = "deliver" /\ f = cap_frame
                   /\ refs[f] = 1
                   /\ f \notin InRing(buffer[CapCam]) \cup held
             /\ (frame_number'[f] # frame_number[f] /\ frame_number'[f] = 0) =>
                   refs'[f] = 0 ]_vars

\* the capture thread is about to write into a frame that was in use
\* before and came back to the free list, while the event thread holds the
\* frame that is in the ring buffer
C37_Witness ==
    /\ capPc = "deliver"
    /\ frame_counter = PoolCap
    /\ held = InRing(buffer[CapCam])
    /\ held # {}
    /\ refs[cap_frame] = 1
    /\ \E f \in held : refs[f] = 2

\* the positions of the binary-state messages in the publish log of event e
DetectedAt(e) == {i \in 1 .. Len(pub[e]) : pub[e][i].topic = "detected"}

\* C38: when processEvent of an event has returned, every detected ON the
\* event published is followed in its publish log by a detected OFF, so
\* that the last binary state it published is not ON; on a connection
\* that was not lost the OFF has gone out as the ON did.
C38_DetectedOnIsReset ==
    \A e \in EventIds :
        pc[e] \in {"wrapper", "done"} =>
            /\ \A i \in At(e, "detected", "ON") :
                  \E j \in At(e, "detected", "OFF") :
                      /\ j > i
                      /\ connected => pub[e][j].sent
            /\ \A i \in DetectedAt(e) :
                  (\A j \in DetectedAt(e) : j <= i) => pub[e][i].payload = "OFF"

\* an event whose stop was requested has ended after an early
\* notification: its detected ON went out and its detected OFF after it
C38_Witness ==
    \E e \in EventIds :
        /\ Completed(e)
        /\ stop_requested[e]
        /\ early_notification_sent[e]
        /\ \E i \in At(e, "detected", "ON"), j \in At(e, "detected", "OFF") :
              i < j /\ pub[e][i].sent /\ pub[e][j].sent

\* C39: on a connection that holds, an event that published the detection
\* message "started" has published the detection message "completed" by
\* the time its processEvent has returned, after which it publishes
\* nothing; this includes the events given up for want of a ring buffer,
\* of a frame, or of a recorder that starts.
C39_StartedIsCompleted ==
    \A e \in EventIds :
        ( /\ pc[e] \in {"wrapper", "done"}
          /\ connected
          /\ \E i \in At(e, "detection", "started") : pub[e][i].sent )
        => \E j \in At(e, "detection", "completed") : pub[e][j].sent

\* C40: while the service runs on a connected bus client, the retained
\* status comes to hold "online" with every saved subscription restored at
\* the broker, or the connection is lost again; in particular after the
\* last will has set the status to "offline" and the client has
\* reconnected.
C40_StatusOnlineAgain ==
    (connected /\ status_retained = Will) ~>
        (~connected \/ (status_retained = "online"
                          /\ UnionAll(pending_subs_) \subseteq brokerSubs))

=============================================================================
